---- MODULE Spec2Model ----
(***************************************************************************)
(* Model of the LLM gateway of agentic-doc-processing (02_src/gateway):    *)
(* RequestQueue, BatchExecutor and its retry / rate-limit subclasses, the  *)
(* RateLimitTracker and the LLMGateway facade with its asyncio worker      *)
(* tasks.  asyncio is cooperative: a coroutine runs without interruption   *)
(* from one await that really suspends to the next, so every action below  *)
(* is one such run.  Time is a discrete clock in milliseconds; it advances *)
(* only while no task is ready to run.                                     *)
(***************************************************************************)
EXTENDS Integers, Sequences, FiniteSets, TLC

VARIABLES
    gateway,     \* the gateway class constructed, which fixes the executor class
    configs,     \* LLMGateway.configs: model id -> ModelConfig
    retry_policy,\* LLMGatewayWithRetry.retry_policy
    now,         \* datetime.now(), in milliseconds
    reqs,        \* the LLMRequest of every request() call, in call order
    futs,        \* the asyncio.Future of every request() call
    queues,      \* LLMGateway._queues[m]._queue: (request, future) pairs by index
    workers,     \* LLMGateway._worker_tasks, each with the position of its coroutine
    stopping,    \* 0, or the number of tasks the running stop() gathers
    stops,       \* number of stop() calls made so far
    trackers,    \* RateLimiter._trackers[m]._requests: deque of (timestamp, tokens)
    registered,  \* the requests whose caller has called RateLimiter.register_request
    sent,        \* per request, the number of provider invocations that carried it
    calls,       \* the callers of the gateway (batch(), _sgr_loop), each with its position
    router,      \* LLMGatewayWithRetry.router: the ResponseRouter's registries
    simple,      \* the calls of SimpleLLMGateway.request, each with its position
    batches,     \* log: every batch returned by RequestQueue.get_batch
    eval,        \* log: the calls of the methods without await, with their results
    clock        \* log: the times of puts, get_batch calls and returns, invocations

state == <<gateway, configs, retry_policy, now, reqs, futs, queues, workers, stopping,
           stops, trackers, registered, sent>>
vars == <<state, calls, router, simple, batches, eval, clock>>

----------------------------------------------------------------------------
(* Bounds of the model *)

\* the gateway with its lifecycle (Spec)
MaxRequests == 2
MaxTasks == 2
MaxStops == 1
MaxTime == 1
BatchSize == 2
Timeout == 1
\* the request queue and its one consumer (SpecQueue)
MaxPuts == 3
MaxClock == 3
MaxBatchSize == 2
MaxTimeout == 2
\* the request queue and several consumers (SpecConsumers)
MaxConsumers == 2
MaxEntries == 3
MaxWait == 1
\* the gateway with retry (SpecRetry)
MaxRetryRequests == 3
MaxRetryTime == 4
RetryDelay == 1
RetryJitter == 1
\* the gateway with rate limits (SpecRate)
MaxRateRequests == 3
MaxSteps == 3
MaxRpm == 2
\* callers of LLMGateway.batch (SpecBatch)
MaxBatchInput == 3
MaxCalls == 2
MaxBatchTime == 1
\* the router (SpecRouter) and the gateway with its router (SpecHandles)
MaxRouterIds == 2
MaxRegistered == 2
MaxWarnings == 1
MaxHandles == 3
MaxHandleTime == 1
\* the SimpleLLMGateway (SpecSimple)
MaxSimpleCalls == 1
MaxSimpleTime == 4000
\* the callers of SimpleLLMGateway.batch (SpecSimpleBatch)
MaxSimpleInput == 3
MaxSimpleBatchTime == 1000
\* the gateway and a provider that returns fewer results (SpecProvider)
MaxProviderRequests == 3
MaxProviderTime == 1
\* the callers of the methods without await
MaxEvals == 2
MaxAttempt == 3
\* the gateway with retries and its lifecycle (SpecRetryStop)
MaxStopRequests == 2
MaxStopTime == 3
\* the retry policies and the gateway under them (SpecDelay)
MaxInitialDelay == 1
MaxMultiplier == 2
MaxJitter == 2
MaxDelayTime == 3
\* the gateway and requests of every kind (SpecRequests)
MaxAnyRequests == 3
MaxAnyTime == 1
MaxTpm == 1500
\* the tracker of one model and the calls made on it (SpecTracker)
MaxTrackerOps == 3
MaxTrackerSteps == 3
MaxTrackerRpm == 2
MaxTrackerTpm == 1000
\* the gateway with rate limits and the retries under them (SpecRateRetry)
MaxRateRetryRequests == 3
MaxRateRetrySteps == 2
MaxRateRetryTime == 2
\* the worker loop under executor errors and stop() (SpecWorker)
MaxWorkerTasks == 1
MaxWorkerStops == 1
MaxWorkerRequests == 2
MaxWorkerRaises == 1
MaxWorkerTime == 2
\* the workers of two models, with rate limits and retries (SpecModels)
MaxModelsRequests == 2
MaxModelsSteps == 2
\* an agent and its gateway (SpecAgent)
MaxVaried == 2

----------------------------------------------------------------------------
(* Data *)

Models == {"m1"}
Contents == {"x"}
\* LLMMessage (models.py)
LLMMessage(role, content) == [role |-> role, content |-> content]
\* the message lists of well-formed requests
Messages == {<<LLMMessage("user", c)>> : c \in Contents}
\* RetryPolicy (retry_policy.py): the defaults of its fields.
DefaultMaxRetries == 3
DefaultInitialDelayMs == 1000
DefaultBackoffMultiplier == 2
DefaultJitterMs == 500

\* The errors a provider call raises: httpx.HTTPStatusError with its status,
\* ConnectionError, TimeoutError, and any other Exception.
HttpError(status) == [kind |-> "HTTPStatusError", status |-> status]
OtherError(kind) == [kind |-> kind, status |-> 0]
Errors == {HttpError(400), HttpError(429), HttpError(503), OtherError("ConnectionError")}
\* abatch returned: no error
NoError == OtherError("")
\* The errors a write of a log file raises (log_dir is set): an OSError, among
\* them TimeoutError on a file system that times out.
LogErrors == {OtherError("OSError"), OtherError("TimeoutError")}

Max(a, b) == IF a >= b THEN a ELSE b
Min(a, b) == IF a <= b THEN a ELSE b

\* ModelConfig (models.py): the fields the gateway reads.  A limit that is
\* None is written 0: the rate limiter reads both as "config.max_... or 0".
ModelConfig(bs, to, rpm, tpm) ==
    [batch_size |-> bs, batch_timeout_ms |-> to,
     max_requests_per_minute |-> rpm, max_tokens_per_minute |-> tpm]

\* RetryPolicy (retry_policy.py), times in milliseconds.
RetryPolicy(n, d, b, j) ==
    [max_retries |-> n, initial_delay_ms |-> d, backoff_multiplier |-> b, jitter_ms |-> j]

\* LLMRequest (models.py); epoch is the number of stop() calls that preceded
\* the submission.
LLMRequest(id, m, messages, e) ==
    [request_id |-> id, model |-> m, messages |-> messages, epoch |-> e]

\* asyncio.Future states.
Pending == [st |-> "pending"]
Result(v) == [st |-> "result", value |-> v]
Exception(e) == [st |-> "exception", value |-> e]
Cancelled == [st |-> "cancelled"]
Done(f) == f.st # "pending"

----------------------------------------------------------------------------
(* RequestQueue (llm_gateway.py) *)

QueuePutFront(q, i) == <<i>> \o q

\* RequestQueue.put: a new pending future, and the pair appended to the
\* asyncio.Queue (unbounded, so the put never suspends).
QueuePut(q, i) == Append(q, i)

QueueGetPeek(q) == [item |-> Head(q), rest |-> q]

\* asyncio.Queue.get on a non-empty queue: the head, and the rest.
QueueGet(q) == [item |-> Head(q), rest |-> Tail(q)]

RECURSIVE AccumulateOffByOne(_, _, _, _, _)
AccumulateOffByOne(requests, q, deadline, t, bs) ==
    IF ~(Len(requests) <= bs)
    THEN [returned |-> TRUE, requests |-> requests, q |-> q]
    ELSE IF deadline - t <= 0
    THEN [returned |-> TRUE, requests |-> requests, q |-> q]
    ELSE IF q # <<>>
    THEN AccumulateOffByOne(Append(requests, Head(q)), Tail(q), deadline, t, bs)
    ELSE [returned |-> FALSE, requests |-> requests, q |-> q]

\* get_batch, the loop of lines 62-71, from the loop test to the next await
\* that suspends (wait_for on an empty queue) or to the return.
RECURSIVE Accumulate(_, _, _, _, _)
Accumulate(requests, q, deadline, t, bs) ==
    IF ~(Len(requests) < bs)
    THEN [returned |-> TRUE, requests |-> requests, q |-> q]
    ELSE IF deadline - t <= 0
    THEN [returned |-> TRUE, requests |-> requests, q |-> q]
    ELSE IF q # <<>>
    THEN Accumulate(Append(requests, QueueGet(q).item), QueueGet(q).rest, deadline, t, bs)
    ELSE [returned |-> FALSE, requests |-> requests, q |-> q]

DeadlineLate(t, cfg) == t + cfg.batch_timeout_ms + 1

\* get_batch, line 55: the deadline is taken when get_batch is entered.
Deadline(t, cfg) == t + cfg.batch_timeout_ms

\* get_batch, lines 58-59 and on: the first entry is appended whatever the
\* batch size, then the loop runs.
AfterFirst(q, deadline, t, cfg) ==
    Accumulate(<<QueueGet(q).item>>, QueueGet(q).rest, deadline, t, cfg.batch_size)

\* get_batch entered at time t on queue q, run to its first suspension or to
\* its return.
GetBatch(q, t, cfg) ==
    IF q = <<>>
    THEN [returned |-> FALSE, requests |-> <<>>, q |-> q, deadline |-> Deadline(t, cfg)]
    ELSE [returned |-> AfterFirst(q, Deadline(t, cfg), t, cfg).returned,
          requests |-> AfterFirst(q, Deadline(t, cfg), t, cfg).requests,
          q |-> AfterFirst(q, Deadline(t, cfg), t, cfg).q,
          deadline |-> Deadline(t, cfg)]

----------------------------------------------------------------------------
(* BatchExecutor (llm_gateway.py) *)

\* execute_batch, lines 142-145: the langchain shape of one request.
LcMessages(req) == [k \in 1..Len(req.messages) |->
                       <<req.messages[k].role, req.messages[k].content>>]

\* The provider adaptor (client.abatch): one result per input, in order; the
\* result names the input it answers.
Abatch(lc_messages) == [p \in 1..Len(lc_messages) |->
                           [content |-> [reply_to |-> lc_messages[p], position |-> p]]]

\* execute_batch, lines 152-157: the LLMResponse built for one request.
LLMResponse(req, resp) == [request_id |-> req.request_id, content |-> resp.content]

DistributeFirst(fs, batch, responses) ==
    [i \in 1..Len(fs) |->
        IF \E p \in 1..Min(Len(batch), Len(responses)) : batch[p] = i /\ ~Done(fs[i])
        THEN Result([request_id |-> reqs[i].request_id, content |-> responses[1].content])
        ELSE fs[i]]

\* execute_batch, lines 151-159: zip(requests, futures, responses), and
\* set_result on every future that is not done.  batch is the list of indices.
Distribute(fs, batch, responses) ==
    [i \in 1..Len(fs) |->
        IF \E p \in 1..Min(Len(batch), Len(responses)) : batch[p] = i /\ ~Done(fs[i])
        THEN LET p == CHOOSE p \in 1..Min(Len(batch), Len(responses)) : batch[p] = i
             IN  Result(LLMResponse(reqs[i], responses[p]))
        ELSE fs[i]]

RejectFirst(fs, batch, e) ==
    [i \in 1..Len(fs) |->
        IF batch # <<>> /\ batch[1] = i /\ ~Done(fs[i]) THEN Exception(e) ELSE fs[i]]

\* execute_batch, lines 164-168: set_exception(e) on every future not done.
RejectAll(fs, batch, e) ==
    [i \in 1..Len(fs) |->
        IF (\E p \in 1..Len(batch) : batch[p] = i) /\ ~Done(fs[i])
        THEN Exception(e)
        ELSE fs[i]]

----------------------------------------------------------------------------
(* ResponseRouter (response_router.py) *)

\* A dict as a function on its keys.
DictGet(d, k) == IF k \in DOMAIN d THEN d[k] ELSE 0

DictSet(d, k, v) == [x \in DOMAIN d \cup {k} |-> IF x = k THEN v ELSE d[x]]

DictPop(d, k) == [x \in DOMAIN d \ {k} |-> d[x]]

\* __init__, lines 20-25: both registries empty.  warnings counts the lines
\* "Warning: No future for request_id" printed so far; resolved is history,
\* for every id resolved or rejected since it was last registered the number
\* of resolve and resolve_error calls made for it since.
InitRouter == [pending_requests |-> <<>>, pending_futures |-> <<>>,
               warnings |-> 0, resolved |-> <<>>]

Warned(r, request_id) ==
    [r EXCEPT !.warnings = @ + 1,
              !.resolved = IF request_id \in DOMAIN @
                           THEN DictSet(@, request_id, @[request_id] + 1) ELSE @]

UnregisterFuture(r, request_id) ==
    [r EXCEPT !.pending_futures = DictPop(@, request_id)]

\* _unregister, lines 75-83: the id is popped from both registries.
Unregister(r, request_id) ==
    [r EXCEPT !.pending_requests = DictPop(@, request_id),
              !.pending_futures = DictPop(@, request_id)]

\* resolve and resolve_error, lines 47-52 and 66-71: the outcome is set on
\* the future unless it is done.
SetOverwrite(fs, i, outcome) == [fs EXCEPT ![i] = outcome]

SetOnce(fs, i, outcome) == IF Done(fs[i]) THEN fs ELSE [fs EXCEPT ![i] = outcome]

RouteAgain(r, fs, request_id, outcome) ==
    LET i == DictGet(r.pending_futures, request_id)
    IN  IF i = 0
        THEN [router |-> Warned(r, request_id), futs |-> fs]
        ELSE [router |-> [r EXCEPT !.resolved = DictSet(@, request_id, 1)],
              futs |-> SetOverwrite(fs, i, outcome)]

\* resolve and resolve_error, lines 47-54 and 66-73: without a future for the
\* id a warning is printed and nothing else happens; else the outcome is set
\* once and the id unregistered.  i is the future's index, 0 for None.
Route(r, fs, request_id, outcome) ==
    LET i == DictGet(r.pending_futures, request_id)
    IN  IF i = 0
        THEN [router |-> Warned(r, request_id), futs |-> fs]
        ELSE [router |-> [Unregister(r, request_id) EXCEPT
                              !.resolved = DictSet(@, request_id, 1)],
              futs |-> SetOnce(fs, i, outcome)]

----------------------------------------------------------------------------
(* SimpleLLMGateway (simple_llm_gateway.py), constructed without log_dir: its
   _log_ methods return at once *)

MAX_RETRIES == 5
\* RETRY_DELAY_SECONDS, in milliseconds
RETRY_DELAY_MS == 1000

IsAnyHttpError(error) == error.kind = "HTTPStatusError"

\* _is_timeout_error, lines 222-242: the error has a response and its status
\* code is 408 or 504.
IsTimeoutError(error) == error.kind = "HTTPStatusError" /\ error.status \in {408, 504}

\* request, lines 183-200, the except clause of attempt number attempt.
SimpleTurn(attempt, error) ==
    IF IsTimeoutError(error) /\ attempt < MAX_RETRIES - 1 THEN "sleep" ELSE "raise"

----------------------------------------------------------------------------
(* RetryPolicy (retry_policy.py) and BatchExecutorWithRetry *)

ShouldRetryOnce(e, attempt) ==
    attempt = 0 /\ (\/ e.kind = "HTTPStatusError" /\ (e.status = 429 \/ e.status \in 500..599)
                    \/ e.kind \in {"ConnectionError", "TimeoutError"})

\* RetryPolicy.should_retry(error, attempt), lines 68-88.
ShouldRetry(e, attempt) ==
    IF e.kind = "HTTPStatusError" /\ e.status = 429 THEN TRUE
    ELSE IF e.kind = "HTTPStatusError" /\ 500 <= e.status /\ e.status < 600 THEN TRUE
    ELSE IF e.kind = "HTTPStatusError" /\ 400 <= e.status /\ e.status < 500 THEN FALSE
    ELSE IF e.kind \in {"ConnectionError", "TimeoutError"} THEN TRUE
    ELSE FALSE

\* A caller of should_retry: the call and its result are logged.
ShouldRetryCall(e, attempt) ==
    /\ eval' = Append(eval, [op |-> "should_retry", error |-> e, attempt |-> attempt,
                             result |-> ShouldRetry(e, attempt)])
    /\ UNCHANGED <<state, calls, router, simple, batches, clock>>

\* BatchExecutor.execute_batch as its caller sees it, lines 140-170: the
\* "except Exception" takes every error of the provider call, so the call
\* returns normally whether abatch returned or raised e.
BaseRaises(e) == FALSE

RECURSIVE Pow(_, _)
Pow(b, n) == IF n = 0 THEN 1 ELSE b * Pow(b, n - 1)

GetDelayLinear(policy, attempt, jitter) ==
    policy.initial_delay_ms * policy.backoff_multiplier * attempt + jitter

\* RetryPolicy.get_delay, lines 35-40, in milliseconds; jitter is the draw of
\* random.uniform(-jitter_ms, jitter_ms).
GetDelay(policy, attempt, jitter) ==
    policy.initial_delay_ms * Pow(policy.backoff_multiplier, attempt) + jitter

NextAttemptStuck(attempt) == attempt

\* BatchExecutorWithRetry.execute_batch, line 52: the for loop takes the next
\* attempt of range(max_retries + 1), if there is one.
NextAttempt(attempt) == attempt + 1

InRange(policy, attempt) == attempt \in 0..policy.max_retries

\* BatchExecutorWithRetry.execute_batch, lines 52-84: one turn of the loop after
\* super().execute_batch has returned, or raised e.
RetryTurn(policy, attempt, raised, e) ==
    IF ~raised THEN "return"
    ELSE IF attempt < policy.max_retries /\ ShouldRetry(e, attempt) THEN "sleep"
    ELSE "give_up"

----------------------------------------------------------------------------
(* RateLimitTracker, RateLimiter, TokenCounter (rate_limiter.py) *)

WindowSeconds == 60
ResponseTokens == 1000

\* the sliding-window eviction of lines 107-109, 120-123 and 164-166
RECURSIVE Evict(_, _)
Evict(rs, t) ==
    IF rs # <<>> /\ rs[1].at < t - WindowSeconds * 1000
    THEN Evict(Tail(rs), t)
    ELSE rs

RECURSIVE TokenSum(_)
TokenSum(rs) == IF rs = <<>> THEN 0 ELSE rs[1].tokens + TokenSum(Tail(rs))

\* RateLimitTracker.add_request, lines 102-109.
AddRequest(rs, t, tokens) == Evict(Append(rs, [at |-> t, tokens |-> tokens]), t)

\* RateLimitTracker.get_usage, lines 118-128 (the deque becomes Evict(rs, t)).
GetUsage(rs, t) == [requests_count |-> Len(Evict(rs, t)),
                    tokens_count |-> TokenSum(Evict(rs, t))]

CanMakeRequestOver(rs, t, max_rpm, max_tpm) ==
    IF max_rpm # 0 /\ GetUsage(rs, t).requests_count > max_rpm
    THEN [ok |-> FALSE, reason |-> "Rate limit exceeded"]
    ELSE IF max_tpm # 0 /\ GetUsage(rs, t).tokens_count > max_tpm
    THEN [ok |-> FALSE, reason |-> "Token limit exceeded"]
    ELSE [ok |-> TRUE, reason |-> ""]

\* RateLimitTracker.can_make_request, lines 143-151.
CanMakeRequest(rs, t, max_rpm, max_tpm) ==
    IF max_rpm # 0 /\ GetUsage(rs, t).requests_count >= max_rpm
    THEN [ok |-> FALSE, reason |-> "Rate limit exceeded"]
    ELSE IF max_tpm # 0 /\ GetUsage(rs, t).tokens_count >= max_tpm
    THEN [ok |-> FALSE, reason |-> "Token limit exceeded"]
    ELSE [ok |-> TRUE, reason |-> ""]

\* wait_until_available, lines 181-183: the oldest samples are dropped from the
\* copy while the token sum is at or over the limit.
RECURSIVE DropOldest(_, _, _)
DropOldest(temp_queue, temp_tokens, max_tpm) ==
    IF temp_tokens >= max_tpm /\ temp_queue # <<>>
    THEN DropOldest(Tail(temp_queue), temp_tokens - temp_queue[1].tokens, max_tpm)
    ELSE temp_queue

\* RateLimitTracker.wait_until_available, lines 160-189, in milliseconds.
WaitUntilAvailable(rs, t, max_rpm, max_tpm) ==
    LET cur == Evict(rs, t)
    IN  IF max_rpm # 0 /\ Len(cur) >= max_rpm
        THEN cur[1].at + WindowSeconds * 1000 - t
        ELSE IF max_tpm # 0 /\ TokenSum(cur) >= max_tpm
                /\ DropOldest(cur, TokenSum(cur), max_tpm) # <<>>
        THEN DropOldest(cur, TokenSum(cur), max_tpm)[1].at + WindowSeconds * 1000 - t
        ELSE 0

\* RateLimiter.check_request, lines 224-242.
CheckRequest(rs, t, cfg) ==
    IF cfg.max_requests_per_minute = 0 /\ cfg.max_tokens_per_minute = 0
    THEN [can_proceed |-> TRUE, reason |-> "", wait |-> 0]
    ELSE IF ~CanMakeRequest(rs, t, cfg.max_requests_per_minute,
                            cfg.max_tokens_per_minute).ok
    THEN [can_proceed |-> FALSE,
          reason |-> CanMakeRequest(rs, t, cfg.max_requests_per_minute,
                                    cfg.max_tokens_per_minute).reason,
          wait |-> WaitUntilAvailable(rs, t, cfg.max_requests_per_minute,
                                      cfg.max_tokens_per_minute)]
    ELSE [can_proceed |-> TRUE, reason |-> "", wait |-> 0]

\* TokenCounter.count_tokens, line 47 (no tiktoken encoder).
CountTokens(text) == Len(text) \div 4

\* TokenCounter.count_request_tokens, lines 58-68 (requests carry no tools).
RECURSIVE CountMessages(_)
CountMessages(messages) ==
    IF messages = <<>> THEN 0
    ELSE CountTokens(messages[1].content) + CountMessages(Tail(messages))

\* RateLimiter.register_request, lines 256-265, for a response without usage.
TotalTokens(req) == CountMessages(req.messages) + ResponseTokens

\* The calls on the tracker of model m, each taken under the tracker's lock.
\* eval gets the call, its time, the deque it found and what it returned.
Untracked == UNCHANGED <<gateway, configs, retry_policy, now, reqs, futs, queues, workers,
                         stopping, stops, registered, sent, calls, router, simple,
                         batches, clock>>

\* RateLimitTracker.add_request(tokens), lines 95-109.
TrackerAddRequest(m, tokens) ==
    /\ trackers' = [trackers EXCEPT ![m] = AddRequest(@, now, tokens)]
    /\ eval' = Append(eval, [op |-> "add_request", model |-> m, at |-> now,
                             before |-> trackers[m], tokens |-> tokens])
    /\ Untracked

\* RateLimitTracker.get_usage(), lines 111-128.
TrackerGetUsage(m) ==
    /\ trackers' = [trackers EXCEPT ![m] = Evict(@, now)]
    /\ eval' = Append(eval, [op |-> "get_usage", model |-> m, at |-> now,
                             before |-> trackers[m], result |-> GetUsage(trackers[m], now)])
    /\ Untracked

\* RateLimitTracker.can_make_request(max_rpm, max_tpm), lines 130-151; its
\* get_usage call evicts.
TrackerCanMakeRequest(m, max_rpm, max_tpm) ==
    /\ trackers' = [trackers EXCEPT ![m] = Evict(@, now)]
    /\ eval' = Append(eval, [op |-> "can_make_request", model |-> m, at |-> now,
                             before |-> trackers[m],
                             max_rpm |-> max_rpm, max_tpm |-> max_tpm,
                             result |-> CanMakeRequest(trackers[m], now, max_rpm, max_tpm)])
    /\ Untracked

\* RateLimitTracker.wait_until_available(max_rpm, max_tpm), lines 153-189.
TrackerWaitUntilAvailable(m, max_rpm, max_tpm) ==
    /\ trackers' = [trackers EXCEPT ![m] = Evict(@, now)]
    /\ eval' = Append(eval, [op |-> "wait_until_available", model |-> m, at |-> now,
                             before |-> trackers[m],
                             max_rpm |-> max_rpm, max_tpm |-> max_tpm,
                             result |-> WaitUntilAvailable(trackers[m], now,
                                                           max_rpm, max_tpm)])
    /\ Untracked

----------------------------------------------------------------------------
(* BatchExecutorWithRateLimit (batch_executor_rate_limit.py) *)

RateLimitError(reason) == OtherError("Rate limit exceeded: " \o reason)

LimitsSet(cfg) == cfg.max_requests_per_minute # 0 \/ cfg.max_tokens_per_minute # 0

RECURSIVE RateLoopNoReturn(_, _, _, _, _, _)
RateLoopNoReturn(cfg, fs, tr, batch, k, t) ==
    IF k > Len(batch)
    THEN [outcome |-> "send", k |-> k, wake |-> 0, futs |-> fs, tracker |-> tr]
    ELSE IF CheckRequest(tr, t, cfg).can_proceed
    THEN RateLoopNoReturn(cfg, fs, IF LimitsSet(cfg) THEN Evict(tr, t) ELSE tr, batch, k + 1, t)
    ELSE IF CheckRequest(tr, t, cfg).wait > 0
    THEN [outcome |-> "sleep", k |-> k, wake |-> t + CheckRequest(tr, t, cfg).wait,
          futs |-> fs, tracker |-> Evict(tr, t)]
    ELSE [outcome |-> "send", k |-> k, wake |-> 0,
          futs |-> RejectAll(fs, batch, RateLimitError(CheckRequest(tr, t, cfg).reason)),
          tracker |-> Evict(tr, t)]

\* execute_batch, lines 56-69: the loop over the batch from its k-th request, up
\* to the sleep of line 63, the rejection of lines 66-69 or the end of the loop.
\* Each check evicts the tracker's old samples (get_usage).
RECURSIVE RateLoop(_, _, _, _, _, _)
RateLoop(cfg, fs, tr, batch, k, t) ==
    IF k > Len(batch)
    THEN [outcome |-> "send", k |-> k, wake |-> 0, futs |-> fs, tracker |-> tr]
    ELSE IF CheckRequest(tr, t, cfg).can_proceed
    THEN RateLoop(cfg, fs, IF LimitsSet(cfg) THEN Evict(tr, t) ELSE tr, batch, k + 1, t)
    ELSE IF CheckRequest(tr, t, cfg).wait > 0
    THEN [outcome |-> "sleep", k |-> k, wake |-> t + CheckRequest(tr, t, cfg).wait,
          futs |-> fs, tracker |-> Evict(tr, t)]
    ELSE [outcome |-> "reject", k |-> k, wake |-> 0,
          futs |-> RejectAll(fs, batch, RateLimitError(CheckRequest(tr, t, cfg).reason)),
          tracker |-> Evict(tr, t)]

----------------------------------------------------------------------------
(* LLMGateway (llm_gateway.py) and its subclasses *)

ModelOrder == <<"m1", "m2">>

IsModel(m) == m \in DOMAIN configs

\* A worker task: the await its coroutine is suspended at, the locals of
\* get_batch and execute_batch, and whether cancel() was called on the task.
Task(m) == [model |-> m, pc |-> "created", requests |-> <<>>, deadline |-> 0,
            attempt |-> 0, k |-> 0, wake |-> 0, cancel |-> FALSE]

Live(w) == workers[w].pc # "done"

\* __init__ of the gateway class cls: the queues, executors and trackers of the
\* configured models, no worker task.
InitGateway(cls, cfgs, policy) ==
    /\ gateway = cls
    /\ configs = cfgs
    /\ retry_policy = policy
    /\ now = 0
    /\ reqs = <<>>
    /\ futs = <<>>
    /\ queues = [m \in DOMAIN cfgs |-> <<>>]
    /\ workers = <<>>
    /\ stopping = 0
    /\ stops = 0
    /\ trackers = [m \in DOMAIN cfgs |-> <<>>]
    /\ registered = {}
    /\ sent = <<>>
    /\ calls = <<>>
    /\ router = InitRouter
    /\ simple = <<>>
    /\ batches = <<>>
    /\ eval = <<>>
    /\ clock = [put |-> <<>>, called |-> <<>>, batch |-> <<>>, sent |-> <<>>]

\* execute_batch of the gateway's executor class, entered with the rate-limit
\* loop at request k, run to its next await: the provider call (line 148 of
\* llm_gateway.py, reached through the retry loop's first turn) or the
\* rate-limit sleep; or to its return when the batch is rejected.
Execute(cfg, fs, tr, batch, k, t) ==
    IF gateway = "LLMGatewayWithRateLimit"
    THEN LET r == RateLoop(cfg, fs, tr, batch, k, t)
         IN  [pc |-> IF r.outcome = "send" THEN "abatch"
                     ELSE IF r.outcome = "sleep" THEN "rate_sleep" ELSE "returned",
              attempt |-> 0, k |-> r.k, wake |-> r.wake, futs |-> r.futs,
              tracker |-> r.tracker]
    ELSE [pc |-> "abatch", attempt |-> 0, k |-> k, wake |-> 0, futs |-> fs, tracker |-> tr]

RECURSIVE ProcessQueue(_, _, _, _, _)
RECURSIVE AfterExecute(_, _, _, _)
RECURSIVE AfterGetBatch(_, _, _, _, _)

\* _process_queue, lines 265-268, from the call of get_batch to the next await
\* that suspends the task.
ProcessQueue(m, fs, tr, q, t) == AfterGetBatch(m, fs, tr, GetBatch(q, t, configs[m]), t)

\* _process_queue, line 268: execute_batch is at x; when it has returned the
\* loop goes round.  g is the get_batch that gave the batch.
AfterExecute(m, x, g, t) ==
    IF x.pc = "returned"
    THEN ProcessQueue(m, x.futs, x.tracker, g.q, t)
    ELSE [pc |-> x.pc, requests |-> g.requests, deadline |-> g.deadline,
          attempt |-> x.attempt, k |-> x.k, wake |-> x.wake, futs |-> x.futs,
          tracker |-> x.tracker, q |-> g.q]

\* _process_queue, lines 267-268: get_batch is at g, suspended on the queue or
\* returned; when returned its batch goes to execute_batch.
AfterGetBatch(m, fs, tr, g, t) ==
    IF ~g.returned
    THEN [pc |-> IF g.requests = <<>> THEN "get_first" ELSE "wait_for",
          requests |-> g.requests, deadline |-> g.deadline, attempt |-> 0, k |-> 0,
          wake |-> 0, futs |-> fs, tracker |-> tr, q |-> g.q]
    ELSE AfterExecute(m, Execute(configs[m], fs, tr, g.requests, 1, t), g, t)

\* The task w is suspended again, at x; a task that reaches abatch has invoked
\* the provider with its batch.
Resume(w, x) ==
    /\ workers' = [workers EXCEPT ![w] =
            [@ EXCEPT !.pc = x.pc, !.requests = x.requests, !.deadline = x.deadline,
                      !.attempt = x.attempt, !.k = x.k, !.wake = x.wake]]
    /\ futs' = x.futs
    /\ trackers' = [trackers EXCEPT ![workers[w].model] = x.tracker]
    /\ queues' = [queues EXCEPT ![workers[w].model] = x.q]
    /\ sent' = [i \in 1..Len(sent) |->
                   IF x.pc = "abatch" /\ \E p \in 1..Len(x.requests) : x.requests[p] = i
                   THEN sent[i] + 1 ELSE sent[i]]

\* the state of get_batch of the task w
Getting(w) == [requests |-> workers[w].requests, deadline |-> workers[w].deadline,
               q |-> queues[workers[w].model]]

StartTwo ==
    /\ stopping = 0
    /\ workers' = workers \o [k \in 1..Len(SelectSeq(ModelOrder, IsModel)) |->
                                 Task(SelectSeq(ModelOrder, IsModel)[k])]
                          \o [k \in 1..Len(SelectSeq(ModelOrder, IsModel)) |->
                                 Task(SelectSeq(ModelOrder, IsModel)[k])]
    /\ UNCHANGED <<gateway, configs, retry_policy, now, reqs, futs, queues, stopping,
                   stops, trackers, registered, sent>>

\* start(), lines 248-253: one task per configured model, appended to the tasks
\* already there.  create_task does not run the coroutine.
Start ==
    /\ stopping = 0
    /\ workers' = workers \o [k \in 1..Len(SelectSeq(ModelOrder, IsModel)) |->
                                 Task(SelectSeq(ModelOrder, IsModel)[k])]
    /\ UNCHANGED <<gateway, configs, retry_policy, now, reqs, futs, queues, stopping,
                   stops, trackers, registered, sent>>

\* stop(), lines 257-258: cancel() on every task, then the gather is awaited.
Stop ==
    /\ stopping = 0
    /\ workers' = [w \in 1..Len(workers) |->
                      IF Live(w) THEN [workers[w] EXCEPT !.cancel = TRUE] ELSE workers[w]]
    /\ stopping' = Len(workers)
    /\ stops' = stops + 1
    /\ UNCHANGED <<gateway, configs, retry_policy, now, reqs, futs, queues, trackers,
                   registered, sent>>

\* stop(), lines 258-259: the gather returns when every gathered task is done.
StopReturn ==
    /\ stopping > 0
    /\ \A w \in 1..stopping : ~Live(w)
    /\ stopping' = 0
    /\ UNCHANGED <<gateway, configs, retry_policy, now, reqs, futs, queues, workers,
                   stops, trackers, registered, sent>>

RequestNoCheck(id, m, messages) ==
    /\ reqs' = Append(reqs, LLMRequest(id, m, messages, stops))
    /\ sent' = Append(sent, 0)
    /\ futs' = Append(futs, Pending)
    /\ queues' = [queues EXCEPT ![m] = QueuePut(@, Len(reqs) + 1)]
    /\ UNCHANGED <<gateway, configs, retry_policy, now, workers, stopping, stops,
                   trackers, registered>>

\* request(), lines 285-292: ValueError for a model without a queue, else the
\* request is put with a new future, which the caller awaits.
Request(id, m, messages) ==
    /\ reqs' = Append(reqs, LLMRequest(id, m, messages, stops))
    /\ sent' = Append(sent, 0)
    /\ IF IsModel(m)
       THEN /\ futs' = Append(futs, Pending)
            /\ queues' = [queues EXCEPT ![m] = QueuePut(@, Len(reqs) + 1)]
       ELSE /\ futs' = Append(futs, [st |-> "raised", value |-> "Unknown model"])
            /\ UNCHANGED queues
    /\ UNCHANGED <<gateway, configs, retry_policy, now, workers, stopping, stops,
                   trackers, registered>>

\* The caller of request() is cancelled while it awaits its future: the future
\* is cancelled with it.
CallerCancel(i) ==
    /\ futs[i].st = "pending"
    /\ futs' = [futs EXCEPT ![i] = Cancelled]
    /\ UNCHANGED <<gateway, configs, retry_policy, now, reqs, queues, workers, stopping,
                   stops, trackers, registered, sent>>

\* _process_queue, first run of the task: it enters the loop and get_batch.
WorkerRun(w) ==
    /\ workers[w].pc = "created"
    /\ ~workers[w].cancel
    /\ Resume(w, ProcessQueue(workers[w].model, futs, trackers[workers[w].model],
                              queues[workers[w].model], now))
    /\ UNCHANGED <<gateway, configs, retry_policy, now, reqs, stopping, stops, registered>>

\* get_batch, line 58: the blocking get returns the first entry.
QueueGetFirst(w) ==
    /\ workers[w].pc = "get_first"
    /\ ~workers[w].cancel
    /\ queues[workers[w].model] # <<>>
    /\ Resume(w, AfterGetBatch(workers[w].model, futs, trackers[workers[w].model],
                     AfterFirst(queues[workers[w].model], workers[w].deadline, now,
                                configs[workers[w].model])
                        @@ [deadline |-> workers[w].deadline], now))
    /\ UNCHANGED <<gateway, configs, retry_policy, now, reqs, stopping, stops, registered>>

\* get_batch, lines 68-69: wait_for returns an entry before its timeout.
WaitForGot(w) ==
    /\ workers[w].pc = "wait_for"
    /\ ~workers[w].cancel
    /\ queues[workers[w].model] # <<>>
    /\ now < workers[w].deadline
    /\ Resume(w, AfterGetBatch(workers[w].model, futs, trackers[workers[w].model],
                     Accumulate(workers[w].requests, queues[workers[w].model],
                                workers[w].deadline, now,
                                configs[workers[w].model].batch_size)
                        @@ [deadline |-> workers[w].deadline], now))
    /\ UNCHANGED <<gateway, configs, retry_policy, now, reqs, stopping, stops, registered>>

\* get_batch, lines 70-71: wait_for times out and the batch is returned.
WaitForTimeout(w) ==
    /\ workers[w].pc = "wait_for"
    /\ ~workers[w].cancel
    /\ now >= workers[w].deadline
    /\ Resume(w, AfterGetBatch(workers[w].model, futs, trackers[workers[w].model],
                     [returned |-> TRUE] @@ Getting(w), now))
    /\ UNCHANGED <<gateway, configs, retry_policy, now, reqs, stopping, stops, registered>>

\* BatchExecutor.execute_batch, lines 148-162: abatch returns, the results are
\* distributed, execute_batch returns through its subclasses and the loop of
\* _process_queue goes round.
ProviderReturn(w) ==
    /\ workers[w].pc = "abatch"
    /\ ~workers[w].cancel
    /\ Resume(w, ProcessQueue(workers[w].model,
                     Distribute(futs, workers[w].requests,
                                Abatch([p \in 1..Len(workers[w].requests) |->
                                           LcMessages(reqs[workers[w].requests[p]])])),
                     trackers[workers[w].model], queues[workers[w].model], now))
    /\ UNCHANGED <<gateway, configs, retry_policy, now, reqs, stopping, stops, registered>>

\* BatchExecutor.execute_batch, lines 148-162, when abatch returns only n
\* results for a longer batch: zip stops after n triples, nothing raises and
\* execute_batch returns.
ProviderReturnFewer(w, n) ==
    /\ workers[w].pc = "abatch"
    /\ ~workers[w].cancel
    /\ n < Len(workers[w].requests)
    /\ Resume(w, ProcessQueue(workers[w].model,
                     Distribute(futs, workers[w].requests,
                                SubSeq(Abatch([p \in 1..Len(workers[w].requests) |->
                                                  LcMessages(reqs[workers[w].requests[p]])]),
                                       1, n)),
                     trackers[workers[w].model], queues[workers[w].model], now))
    /\ UNCHANGED <<gateway, configs, retry_policy, now, reqs, stopping, stops, registered>>

\* BatchExecutor.execute_batch, lines 164-170: abatch raises e, every future of
\* the batch gets e and execute_batch returns.  The retry subclass takes one
\* turn of its loop on what the base call did.
ProviderRaise(w, e) ==
    /\ workers[w].pc = "abatch"
    /\ ~workers[w].cancel
    /\ gateway = "LLMGateway"
        \/ RetryTurn(retry_policy, workers[w].attempt, BaseRaises(e), e) # "sleep"
    /\ Resume(w, ProcessQueue(workers[w].model, RejectAll(futs, workers[w].requests, e),
                     trackers[workers[w].model], queues[workers[w].model], now))
    /\ UNCHANGED <<gateway, configs, retry_policy, now, reqs, stopping, stops, registered>>

ErrorLogRaisesFatal(w, e, le, j) ==
    /\ workers[w].pc = "abatch"
    /\ ~workers[w].cancel
    /\ workers' = [workers EXCEPT ![w] = [@ EXCEPT !.pc = "done", !.requests = <<>>]]
    /\ futs' = IF e = NoError
               THEN Distribute(futs, workers[w].requests,
                               Abatch([p \in 1..Len(workers[w].requests) |->
                                          LcMessages(reqs[workers[w].requests[p]])]))
               ELSE RejectAll(futs, workers[w].requests, e)
    /\ UNCHANGED <<gateway, configs, retry_policy, now, reqs, queues, stopping, stops,
                   trackers, registered, sent>>

\* BatchExecutor.execute_batch, lines 148-170, when the write of errors.jsonl
\* raises le.  abatch raised e and every future got e; or abatch returned
\* (e is NoError), the results were distributed and the write of
\* batches.jsonl raised le inside the try.  le leaves execute_batch from its
\* except block.  The worker of the base class prints it and goes round; the
\* retry subclass takes a turn of its loop: it sleeps get_delay (jitter j) for
\* the next attempt, or sets le on the futures not done and returns.
ErrorLogRaises(w, e, le, j) ==
    /\ workers[w].pc = "abatch"
    /\ ~workers[w].cancel
    /\ LET fs == IF e = NoError
                 THEN Distribute(futs, workers[w].requests,
                                 Abatch([p \in 1..Len(workers[w].requests) |->
                                            LcMessages(reqs[workers[w].requests[p]])]))
                 ELSE RejectAll(futs, workers[w].requests, e)
           turn == IF gateway = "LLMGateway" THEN "raise"
                   ELSE RetryTurn(retry_policy, workers[w].attempt, TRUE, le)
       IN  IF turn = "sleep"
           THEN Resume(w, [pc |-> "retry_sleep", attempt |-> workers[w].attempt,
                           k |-> workers[w].k,
                           wake |-> now + GetDelay(retry_policy, workers[w].attempt, j),
                           futs |-> fs, tracker |-> trackers[workers[w].model]]
                          @@ Getting(w))
           ELSE Resume(w, ProcessQueue(workers[w].model,
                              IF turn = "give_up"
                              THEN RejectAll(fs, workers[w].requests, le) ELSE fs,
                              trackers[workers[w].model], queues[workers[w].model], now))
    /\ UNCHANGED <<gateway, configs, retry_policy, now, reqs, stopping, stops, registered>>

RetrySleepDoneSwallowed(w) ==
    /\ workers[w].pc = "retry_sleep"
    /\ now >= workers[w].wake
    /\ Resume(w, [pc |-> "abatch", attempt |-> NextAttempt(workers[w].attempt),
                  k |-> workers[w].k, wake |-> 0, futs |-> futs,
                  tracker |-> trackers[workers[w].model]] @@ Getting(w))
    /\ UNCHANGED <<gateway, configs, retry_policy, now, reqs, stopping, stops, registered>>

\* BatchExecutorWithRetry.execute_batch, lines 73-76 and 52-55: the sleep is
\* over, the loop takes the next attempt and the base class calls abatch; when
\* the range is exhausted execute_batch returns.
RetrySleepDone(w) ==
    /\ workers[w].pc = "retry_sleep"
    /\ ~workers[w].cancel
    /\ now >= workers[w].wake
    /\ IF InRange(retry_policy, NextAttempt(workers[w].attempt))
       THEN Resume(w, [pc |-> "abatch", attempt |-> NextAttempt(workers[w].attempt),
                       k |-> workers[w].k, wake |-> 0, futs |-> futs,
                       tracker |-> trackers[workers[w].model]] @@ Getting(w))
       ELSE Resume(w, ProcessQueue(workers[w].model, futs, trackers[workers[w].model],
                                   queues[workers[w].model], now))
    /\ UNCHANGED <<gateway, configs, retry_policy, now, reqs, stopping, stops, registered>>

\* BatchExecutorWithRateLimit.execute_batch, line 63: the sleep is over and the
\* loop goes on with the next request of the batch.
RateSleepDone(w) ==
    /\ workers[w].pc = "rate_sleep"
    /\ ~workers[w].cancel
    /\ now >= workers[w].wake
    /\ Resume(w, AfterExecute(workers[w].model,
                     Execute(configs[workers[w].model], futs, trackers[workers[w].model],
                             workers[w].requests, workers[w].k + 1, now),
                     Getting(w), now))
    /\ UNCHANGED <<gateway, configs, retry_policy, now, reqs, stopping, stops, registered>>

\* The cancelled task runs: CancelledError is raised at its await.  It is a
\* BaseException, so no "except Exception" sees it and the task ends with the
\* locals of get_batch and execute_batch.
WorkerCancelled(w) ==
    /\ Live(w)
    /\ workers[w].cancel
    /\ workers' = [workers EXCEPT ![w] = [@ EXCEPT !.pc = "done", !.requests = <<>>]]
    /\ UNCHANGED <<gateway, configs, retry_policy, now, reqs, futs, queues, stopping,
                   stops, trackers, registered, sent>>

\* RateLimiter.register_request, lines 252-265, called by the owner of the
\* gateway with a request and its response.
RegisterRequest(i) ==
    /\ gateway = "LLMGatewayWithRateLimit"
    /\ futs[i].st = "result"
    /\ i \notin registered
    /\ registered' = registered \cup {i}
    /\ trackers' = [trackers EXCEPT ![reqs[i].model] = AddRequest(@, now, TotalTokens(reqs[i]))]
    /\ UNCHANGED <<gateway, configs, retry_policy, now, reqs, futs, queues, workers,
                   stopping, stops, sent>>

\* ResponseRouter.register(request, future), lines 27-36, with a future the
\* caller has just made: both registries get the request's id as key.
RouterRegister(id, m, messages) ==
    /\ reqs' = Append(reqs, LLMRequest(id, m, messages, stops))
    /\ futs' = Append(futs, Pending)
    /\ sent' = Append(sent, 0)
    /\ router' = [router EXCEPT
                     !.pending_requests = DictSet(@, id, Len(reqs) + 1),
                     !.pending_futures = DictSet(@, id, Len(reqs) + 1),
                     !.resolved = DictPop(@, id)]
    /\ UNCHANGED <<gateway, configs, retry_policy, now, queues, workers, stopping,
                   stops, trackers, registered, calls>>

\* ResponseRouter.resolve(response), lines 38-54.
RouterResolve(response) ==
    /\ router' = Route(router, futs, response.request_id, Result(response)).router
    /\ futs' = Route(router, futs, response.request_id, Result(response)).futs
    /\ UNCHANGED <<gateway, configs, retry_policy, now, reqs, queues, workers, stopping,
                   stops, trackers, registered, sent, calls>>

\* ResponseRouter.resolve_error(request_id, error), lines 56-73.
RouterResolveError(request_id, error) ==
    /\ router' = Route(router, futs, request_id, Exception(error)).router
    /\ futs' = Route(router, futs, request_id, Exception(error)).futs
    /\ UNCHANGED <<gateway, configs, retry_policy, now, reqs, queues, workers, stopping,
                   stops, trackers, registered, sent, calls>>

\* ResponseRouter.register(request, future), lines 27-36, with a request
\* that names its agent (LLMRequest.agent_id).
RouterRegisterAgent(id, m, messages, agent_id) ==
    /\ reqs' = Append(reqs, LLMRequest(id, m, messages, stops) @@ [agent_id |-> agent_id])
    /\ futs' = Append(futs, Pending)
    /\ sent' = Append(sent, 0)
    /\ router' = [router EXCEPT
                     !.pending_requests = DictSet(@, id, Len(reqs) + 1),
                     !.pending_futures = DictSet(@, id, Len(reqs) + 1),
                     !.resolved = DictPop(@, id)]
    /\ UNCHANGED <<gateway, configs, retry_policy, now, queues, workers, stopping,
                   stops, trackers, registered, calls>>

\* _log_response and _log_error, lines 98-106 and 125-133, of a router with
\* a log_dir: the entry appended to the file.  registry is _pending_requests
\* at the time of the call; the agent_id is None when the id is not in it.
LogEntry(file, registry, request_id, status) ==
    [op |-> file, request_id |-> request_id,
     agent_id |-> IF DictGet(registry, request_id) = 0 THEN "None"
                  ELSE reqs[DictGet(registry, request_id)].agent_id,
     status |-> status]

\* resolve and resolve_error, lines 45-54 and 64-73, of a router with a
\* log_dir: without a future the call returns before the log; else the entry
\* is built after _unregister has run.
RouterLog(file, request_id, status) ==
    /\ eval' = IF DictGet(router.pending_futures, request_id) = 0 THEN eval
               ELSE Append(eval, LogEntry(file, router'.pending_requests, request_id, status))
    /\ UNCHANGED <<batches, clock>>

\* langchain_core.messages.AIMessage and ToolMessage, written as tuples that
\* begin with the name of the class, next to the (role, content) tuples.
AIMessage(content, tool_calls) == <<"AIMessage", content, tool_calls>>
ToolMessage(content, tool_call_id) == <<"ToolMessage", content, tool_call_id>>

\* SimpleLLMGateway.request, lines 139-157: the langchain shape of one
\* message.  A message with a tool_call becomes an AIMessage, whatever its
\* role; a tool message with a name and without a tool_call becomes a
\* ToolMessage with the id "unknown"; any other message a (role, content) tuple.
SimpleLcMessage(msg) ==
    IF "tool_call" \in DOMAIN msg
    THEN AIMessage(msg.content, <<msg.tool_call>>)
    ELSE IF msg.role = "tool" /\ "name" \in DOMAIN msg
    THEN ToolMessage(msg.content, <<"unknown">>)
    ELSE <<msg.role, msg.content>>

\* SimpleLLMGateway.request, lines 138-157: lc_messages.
SimpleLcMessages(request) ==
    [k \in 1..Len(request.messages) |-> SimpleLcMessage(request.messages[k])]

\* SimpleLLMGateway.request(request), lines 133-167: an unknown model raises
\* ValueError; else the loop is entered and the first ainvoke awaited.
SimpleCall(request) ==
    [request |-> request, attempt |-> 0, wake |-> 0,
     pc |-> IF IsModel(request.model) THEN "ainvoke" ELSE "raised",
     invoked |-> IF IsModel(request.model) THEN 1 ELSE 0,
     events |-> <<>>,
     outcome |-> IF IsModel(request.model) THEN NoError ELSE OtherError("ValueError")]

SimpleRequest(id, m, messages) ==
    /\ simple' = Append(simple, SimpleCall(LLMRequest(id, m, messages, 0)))
    /\ UNCHANGED <<state, calls, router>>

\* request, lines 167-181: ainvoke returns and the response is returned.
AfterReturn(call) ==
    [call EXCEPT !.pc = "returned",
                 !.events = Append(@, [op |-> "ainvoke", error |-> NoError])]

SimpleReturn(c) ==
    /\ simple[c].pc = "ainvoke"
    /\ simple' = [simple EXCEPT ![c] = AfterReturn(@)]
    /\ UNCHANGED <<state, calls, router>>

\* request, lines 183-200: ainvoke raises error at time t; a timeout error
\* before the last attempt starts the sleep of line 191, any other error is
\* raised.
AfterRaise(call, error, t) ==
    IF SimpleTurn(call.attempt, error) = "sleep"
    THEN [call EXCEPT !.pc = "sleep", !.wake = t + RETRY_DELAY_MS,
                      !.events = @ \o <<[op |-> "ainvoke", error |-> error],
                                        [op |-> "sleep", ms |-> RETRY_DELAY_MS]>>]
    ELSE [call EXCEPT !.pc = "raised", !.outcome = error,
                      !.events = Append(@, [op |-> "ainvoke", error |-> error])]

SimpleRaise(c, error) ==
    /\ simple[c].pc = "ainvoke"
    /\ simple' = [simple EXCEPT ![c] = AfterRaise(@, error, now)]
    /\ UNCHANGED <<state, calls, router>>

\* request, lines 191-192 and 162-167: the sleep is over, the loop continues
\* with the next attempt and awaits ainvoke again; after the last value of
\* range(MAX_RETRIES) line 203 raises the last exception.
SimpleSleepDone(c) ==
    /\ simple[c].pc = "sleep"
    /\ now >= simple[c].wake
    /\ simple' = [simple EXCEPT ![c] =
           IF simple[c].attempt + 1 < MAX_RETRIES
           THEN [@ EXCEPT !.pc = "ainvoke", !.attempt = @ + 1, !.invoked = @ + 1]
           ELSE [@ EXCEPT !.pc = "raised",
                          !.outcome = simple[c].events[Len(simple[c].events) - 1].error]]
    /\ UNCHANGED <<state, calls, router>>

\* request, lines 170-178: the response built from the provider's answer to
\* the call.
SimpleResponse(call) ==
    [request_id |-> call.request.request_id,
     content |-> [reply_to |-> LcMessages(call.request)]]

PrependResponse(responses, response) == <<response>> \o responses

\* batch, line 218: responses.append(response).
AppendResponse(responses, response) == Append(responses, response)

\* batch, lines 216-220: the loop of caller b is at request number pos of its
\* input with the responses so far.  Past the last request it returns them;
\* else request(input[pos]) is called, which raises at once for an unknown
\* model, and batch() with it, or awaits its first ainvoke.  sim is the
\* calls of request() so far; started lists, in order, those this caller
\* has made.
SimpleBatchLoop(b, call, pos, responses, sim) ==
    LET more == pos <= Len(call.input)
        next == SimpleCall(call.input[pos])
        at == [call EXCEPT
                  !.pos = pos,
                  !.responses = responses,
                  !.started = IF more THEN Append(@, Len(sim) + 1) ELSE @,
                  !.pc = IF ~more THEN "returned"
                         ELSE IF next.pc = "raised" THEN "raised" ELSE "request",
                  !.error = IF more /\ next.pc = "raised" THEN next.outcome ELSE @]
    IN  /\ calls' = IF b > Len(calls) THEN Append(calls, at) ELSE [calls EXCEPT ![b] = at]
        /\ simple' = IF more THEN Append(sim, next) ELSE sim

\* SimpleLLMGateway.batch(requests), lines 215-217: the loop is entered.
SimpleBatch(requests) ==
    /\ SimpleBatchLoop(Len(calls) + 1,
                       [input |-> requests, pos |-> 1, responses |-> <<>>,
                        started |-> <<>>, pc |-> "request", error |-> NoError],
                       1, <<>>, simple)
    /\ UNCHANGED <<state, router>>

\* The request() that caller b awaits.
Awaited(b) == calls[b].started[Len(calls[b].started)]

\* batch, lines 217-218: the ainvoke of the awaited request() returns, the
\* response is appended and the loop goes on.
SimpleBatchReturn(b) ==
    /\ calls[b].pc = "request"
    /\ simple[Awaited(b)].pc = "ainvoke"
    /\ SimpleBatchLoop(b, calls[b], calls[b].pos + 1,
                       AppendResponse(calls[b].responses,
                                      SimpleResponse(simple[Awaited(b)])),
                       [simple EXCEPT ![Awaited(b)] = AfterReturn(@)])
    /\ UNCHANGED <<state, router>>

\* batch, line 217: the ainvoke of the awaited request() raises error; the
\* request() sleeps before its next attempt, or raises and batch() with it.
SimpleBatchRaise(b, error) ==
    /\ calls[b].pc = "request"
    /\ simple[Awaited(b)].pc = "ainvoke"
    /\ simple' = [simple EXCEPT ![Awaited(b)] = AfterRaise(@, error, now)]
    /\ calls' = [calls EXCEPT ![b] =
           IF simple'[Awaited(b)].pc = "raised"
           THEN [@ EXCEPT !.pc = "raised", !.error = error] ELSE @]
    /\ UNCHANGED <<state, router>>

\* batch, line 217: the sleep of the awaited request() is over.
SimpleBatchSleepDone(b) ==
    /\ calls[b].pc = "request"
    /\ SimpleSleepDone(Awaited(b))

\* batch(), lines 305-307: the models of the first n requests, in the order of
\* their first appearance (the keys of the dict by_model).
RECURSIVE Keys(_, _)
Keys(requests, n) ==
    IF n = 0 THEN <<>>
    ELSE IF \E k \in 1..Len(Keys(requests, n - 1)) :
                Keys(requests, n - 1)[k] = requests[n].model
    THEN Keys(requests, n - 1)
    ELSE Append(Keys(requests, n - 1), requests[n].model)

\* batch(), lines 305-307: by_model.items(), each value in input order.
ByModel(requests) ==
    [g \in 1..Len(Keys(requests, Len(requests))) |->
        [model |-> Keys(requests, Len(requests))[g],
         requests |-> SelectSeq(requests,
                         LAMBDA r : r.model = Keys(requests, Len(requests))[g])]]

\* batch(), lines 312-314: the request() of every entry of one group runs to
\* its await, in order (gather makes a task of each).  g is the gateway's
\* [reqs, futs, queues, sent] and handles the futures made so far.
RECURSIVE GatherRequests(_, _, _)
GatherRequests(g, handles, requests) ==
    IF requests = <<>> THEN g @@ [handles |-> handles]
    ELSE GatherRequests(
             [reqs |-> Append(g.reqs, requests[1]),
              sent |-> Append(g.sent, 0),
              futs |-> Append(g.futs, IF IsModel(requests[1].model) THEN Pending
                                      ELSE [st |-> "raised", value |-> "Unknown model"]),
              queues |-> IF IsModel(requests[1].model)
                         THEN [g.queues EXCEPT ![requests[1].model] =
                                  QueuePut(@, Len(g.reqs) + 1)]
                         ELSE g.queues],
             Append(handles, Len(g.reqs) + 1), Tail(requests))

\* batch(), lines 311-317: the loop of call c is at group n of by_model with
\* the results so far; it returns after the last group, else it awaits the
\* gather of group n.
BatchLoop(c, call, n, results) ==
    LET g == IF n > Len(call.by_model)
             THEN [reqs |-> reqs, futs |-> futs, queues |-> queues, sent |-> sent,
                   handles |-> <<>>]
             ELSE GatherRequests([reqs |-> reqs, futs |-> futs, queues |-> queues,
                                  sent |-> sent], <<>>, call.by_model[n].requests)
        at == [call EXCEPT !.pc = IF n > Len(call.by_model) THEN "returned" ELSE "gather",
                           !.group = n, !.handles = g.handles, !.results = results]
    IN  /\ calls' = IF c > Len(calls) THEN Append(calls, at) ELSE [calls EXCEPT ![c] = at]
        /\ reqs' = g.reqs
        /\ futs' = g.futs
        /\ queues' = g.queues
        /\ sent' = g.sent

\* batch(requests), lines 305-314: the requests are grouped by model and the
\* first group is submitted.
Batch(requests) ==
    /\ BatchLoop(Len(calls) + 1,
                 [input |-> requests, by_model |-> ByModel(requests), group |-> 1,
                  handles |-> <<>>, results |-> <<>>, pc |-> "gather"],
                 1, <<>>)
    /\ UNCHANGED <<gateway, configs, retry_policy, now, workers, stopping, stops,
                   trackers, registered>>

\* batch(), lines 312-315: every request() of the group has returned; the
\* gather returns their responses in the order of the group, the results are
\* extended and the loop goes on.
BatchGatherReturn(c) ==
    /\ calls[c].pc = "gather"
    /\ \A h \in 1..Len(calls[c].handles) : futs[calls[c].handles[h]].st = "result"
    /\ BatchLoop(c, calls[c], calls[c].group + 1,
                 calls[c].results \o [h \in 1..Len(calls[c].handles) |->
                                         futs[calls[c].handles[h]].value])
    /\ UNCHANGED <<gateway, configs, retry_policy, now, workers, stopping, stops,
                   trackers, registered>>

\* batch(), line 312: a request() of the group has raised; the gather raises
\* its error and batch() with it.
BatchGatherRaise(c) ==
    /\ calls[c].pc = "gather"
    /\ \E h \in 1..Len(calls[c].handles) :
           futs[calls[c].handles[h]].st \in {"exception", "cancelled", "raised"}
    /\ calls' = [calls EXCEPT ![c].pc = "raised"]
    /\ UNCHANGED <<gateway, configs, retry_policy, now, reqs, futs, queues, workers,
                   stopping, stops, trackers, registered, sent>>

\* A task that the event loop runs now: its await is already satisfied.
Urgent(w) ==
    \/ Live(w) /\ workers[w].cancel
    \/ workers[w].pc \in {"created"}
    \/ workers[w].pc = "get_first" /\ queues[workers[w].model] # <<>>
    \/ workers[w].pc = "wait_for"
        /\ (queues[workers[w].model] # <<>> \/ now >= workers[w].deadline)
    \/ workers[w].pc \in {"rate_sleep", "retry_sleep"} /\ now >= workers[w].wake

\* Time passes, while no task is ready to run.
Tick(step) ==
    /\ \A w \in 1..Len(workers) : ~Urgent(w)
    /\ now' = now + step
    /\ UNCHANGED <<gateway, configs, retry_policy, reqs, futs, queues, workers, stopping,
                   stops, trackers, registered, sent>>

----------------------------------------------------------------------------
(* SystemSGRAgent (agents/sgr_agent.py) *)

\* SystemSGRAgent.MAX_ITERATIONS, line 36.
MAX_ITERATIONS == 10

\* LLMMessage (models.py) with its optional fields: a field that is None is
\* left out of the record.  The texts of the agent are written as the tuples
\* of their parts, "" as <<>>.  _sgr_loop, lines 209-213 and 232-235: the
\* assistant message for a tool call.
AssistantMessage(tool_call) ==
    [role |-> "assistant", content |-> <<>>, tool_call |-> tool_call]

\* _sgr_loop, lines 215-220 and 236-241: the tool message with the result of
\* a tool call.
ToolResultMessage(name, content, tool_call) ==
    [role |-> "tool", name |-> name, content |-> content, tool_call |-> tool_call]

\* One entry of LLMResponse.tool_calls: a dict with the keys id and name (the
\* key arguments is a JSON string, "{}" when it is absent).
ToolCall(id, name) == [id |-> id, name |-> name]

\* SystemSGRAgent.tools: the names of the tools the agent has.
AgentTools == {"dummy_tool"}

\* _sgr_loop, lines 244 and 223: the messages for a tool that is not found and
\* for a tool whose execute() raised.
NotFound(tool_name) == <<"Error: Tool not found", tool_name>>
ErrorExecuting(tool_name, e) == <<"Error executing", tool_name, e>>

\* _sgr_loop, lines 178-254: the loop over response.tool_calls from the call
\* at the head of run.tool_calls on.  A tool that is not found gets one
\* assistant message with the error and the loop goes on; a tool that is found
\* is executed, and the coroutine awaits it.
RECURSIVE ToolLoop(_)
ToolLoop(run) ==
    IF run.tool_calls = <<>> THEN run
    ELSE IF run.tool_calls[1].name \in AgentTools
    THEN [run EXCEPT !.pc = "execute"]
    ELSE ToolLoop([run EXCEPT
             !.messages = Append(@, LLMMessage("assistant",
                                               NotFound(run.tool_calls[1].name))),
             !.tool_calls = Tail(@)])

SgrIterateOver(c, run) ==
    IF run.iteration > MAX_ITERATIONS
    THEN /\ calls' = [calls EXCEPT ![c] =
                 [run EXCEPT !.pc = "returned",
                             !.result = <<"Error: Maximum iterations exceeded">>]]
         /\ reqs' = reqs
    ELSE /\ calls' = IF c > Len(calls) THEN Append(calls, [run EXCEPT !.pc = "request"])
                     ELSE [calls EXCEPT ![c] = [run EXCEPT !.pc = "request"]]
         /\ reqs' = Append(reqs, LLMRequest(<<run.agent_id, "iter", run.iteration>>,
                                            run.model, run.messages, 0))

\* _sgr_loop, lines 162-173 and 261: the top of the for loop of call c.  The
\* range is exhausted after MAX_ITERATIONS iterations and the error text is
\* returned; else the request of this iteration is built from the messages
\* and sent to the gateway.
SgrIterate(c, run) ==
    IF run.iteration >= MAX_ITERATIONS
    THEN /\ calls' = [calls EXCEPT ![c] =
                 [run EXCEPT !.pc = "returned",
                             !.result = <<"Error: Maximum iterations exceeded">>]]
         /\ reqs' = reqs
    ELSE /\ calls' = IF c > Len(calls) THEN Append(calls, [run EXCEPT !.pc = "request"])
                     ELSE [calls EXCEPT ![c] = [run EXCEPT !.pc = "request"]]
         /\ reqs' = Append(reqs, LLMRequest(<<run.agent_id, "iter", run.iteration>>,
                                            run.model, run.messages, 0))

\* _sgr_loop, lines 178-255: the tool calls of the response are worked off
\* until one is awaited; after the last one the next iteration begins.
SgrTools(c, run) ==
    IF ToolLoop(run).tool_calls # <<>>
    THEN calls' = [calls EXCEPT ![c] = ToolLoop(run)] /\ reqs' = reqs
    ELSE SgrIterate(c, [ToolLoop(run) EXCEPT !.iteration = @ + 1])

\* run(), lines 102-126: _sgr_loop is called with the system prompt and the
\* user message, and sends its first request.
SgrLoop(agent_id, m, user_message) ==
    /\ SgrIterate(Len(calls) + 1,
                  [agent_id |-> agent_id, model |-> m, iteration |-> 0,
                   messages |-> <<LLMMessage("system", <<"prompt">>),
                                  LLMMessage("user", user_message)>>,
                   tool_calls |-> <<>>, pc |-> "request", result |-> <<>>])
    /\ UNCHANGED <<gateway, configs, retry_policy, now, futs, queues, workers, stopping,
                   stops, trackers, registered, sent, router, simple>>

\* _sgr_loop, lines 173-176 and 256-258: gateway.request returns a response.
\* Without tool calls (None or an empty list) its content is the answer.
SgrResponse(c, response) ==
    /\ calls[c].pc = "request"
    /\ IF response.tool_calls # <<>>
       THEN SgrTools(c, [calls[c] EXCEPT !.tool_calls = response.tool_calls])
       ELSE /\ calls' = [calls EXCEPT ![c].pc = "returned", ![c].result = response.content]
            /\ reqs' = reqs
    /\ UNCHANGED <<gateway, configs, retry_policy, now, futs, queues, workers, stopping,
                   stops, trackers, registered, sent, router, simple>>

\* _sgr_loop, line 173: gateway.request raises, and the loop with it.
SgrRequestRaise(c, error) ==
    /\ calls[c].pc = "request"
    /\ calls' = [calls EXCEPT ![c].pc = "raised", ![c].result = error]
    /\ UNCHANGED <<gateway, configs, retry_policy, now, reqs, futs, queues, workers,
                   stopping, stops, trackers, registered, sent, router, simple>>

\* _sgr_loop, lines 198-220 and 230-241: the two messages appended for a tool
\* call that was executed, the assistant message with the tool call and the
\* tool message with its result or its error, both carrying the tool call.
Executed(run, content) ==
    [run EXCEPT !.messages = @ \o
                    <<AssistantMessage(run.tool_calls[1]),
                      ToolResultMessage(run.tool_calls[1].name, content,
                                        run.tool_calls[1])>>,
                !.tool_calls = Tail(@)]

\* _sgr_loop, lines 198-220: tool.execute returns its result.
ToolReturn(c, result) ==
    /\ calls[c].pc = "execute"
    /\ SgrTools(c, Executed(calls[c], result))
    /\ UNCHANGED <<gateway, configs, retry_policy, now, futs, queues, workers, stopping,
                   stops, trackers, registered, sent, router, simple>>

\* _sgr_loop, lines 221-241: tool.execute raises an Exception.
ToolRaise(c, e) ==
    /\ calls[c].pc = "execute"
    /\ SgrTools(c, Executed(calls[c], ErrorExecuting(calls[c].tool_calls[1].name, e)))
    /\ UNCHANGED <<gateway, configs, retry_policy, now, futs, queues, workers, stopping,
                   stops, trackers, registered, sent, router, simple>>

----------------------------------------------------------------------------
(* The specifications *)

RequestId(i) == <<"id", i>>

\* The observers.  They log what the actions do and change nothing of it:
\* batches gets every batch get_batch returns to a BatchExecutor (a worker that
\* reaches abatch has just been handed one), clock the times of puts, of
\* get_batch calls and returns, and of the requests passed to the provider.
\* A step of the gateway's own methods and tasks leaves its callers where
\* they are, and the router and the calls of a SimpleLLMGateway, which no
\* method of the gateway touches.
Unrouted == UNCHANGED <<router, simple>>

Apart == UNCHANGED calls /\ Unrouted

Unlogged == UNCHANGED <<batches, eval, clock>>

NoLog == Apart /\ Unlogged

PutLog == /\ Apart
          /\ clock' = [clock EXCEPT !.put = Append(@, now)]
          /\ UNCHANGED <<batches, eval>>

GetBatchLog(w, called) ==
    LET at == IF called
              THEN [k \in 1..Len(workers) |-> IF k = w \/ k > Len(clock.called)
                                              THEN now ELSE clock.called[k]]
              ELSE clock.called
        returned == workers'[w].pc = "abatch"
    IN  /\ Apart
        /\ batches' = IF returned
                      THEN Append(batches, [model |-> workers[w].model,
                                            entries |-> workers'[w].requests])
                      ELSE batches
        /\ clock' = [clock EXCEPT !.called = at,
                                  !.batch = IF returned
                                            THEN Append(@, [called |-> at[w], returned |-> now])
                                            ELSE @]
        /\ UNCHANGED eval

BatchLog(w) ==
    /\ Apart
    /\ batches' = IF workers'[w].pc = "abatch"
                  THEN Append(batches, [model |-> workers[w].model,
                                        entries |-> workers'[w].requests])
                  ELSE batches
    /\ UNCHANGED <<clock, eval>>

SendLog(w) ==
    /\ Apart
    /\ clock' = [clock EXCEPT !.sent =
                    IF workers'[w].pc = "abatch"
                    THEN @ \o [p \in 1..Len(workers'[w].requests) |->
                                  [model |-> workers[w].model, at |-> now]]
                    ELSE @]
    /\ UNCHANGED <<batches, eval>>

\* The delay get_delay returns to the retry loop (jitter draw j) and the time
\* at which the sleep for it starts; the time the sleep has taken when the
\* loop goes on.
DelayLog(w, j) ==
    /\ Apart
    /\ eval' = IF workers'[w].pc = "retry_sleep"
               THEN Append(eval, [op |-> "get_delay", attempt |-> workers[w].attempt,
                                  jitter |-> j, result |-> workers'[w].wake - now,
                                  at |-> now])
               ELSE eval
    /\ UNCHANGED <<batches, clock>>

SleptLog(w) ==
    /\ Apart
    /\ eval' = Append(eval, [op |-> "slept", ms |-> now - eval[Len(eval)].at])
    /\ UNCHANGED <<batches, clock>>

DefaultRetryPolicy == RetryPolicy(DefaultMaxRetries, DefaultInitialDelayMs,
                                  DefaultBackoffMultiplier, DefaultJitterMs)

\* The gateway with its lifecycle.
Init == InitGateway("LLMGateway", [m \in Models |-> ModelConfig(BatchSize, Timeout, 0, 0)],
                    DefaultRetryPolicy)

Next ==
    \/ Len(workers) < MaxTasks /\ Start /\ NoLog
    \/ stops < MaxStops /\ Stop /\ NoLog
    \/ StopReturn /\ NoLog
    \/ \E m \in Models, c \in Messages :
           Len(reqs) < MaxRequests /\ Request(RequestId(Len(reqs) + 1), m, c) /\ NoLog
    \/ \E i \in 1..Len(futs) : CallerCancel(i) /\ NoLog
    \/ \E w \in 1..Len(workers) : WorkerRun(w) /\ NoLog
    \/ \E w \in 1..Len(workers) : QueueGetFirst(w) /\ NoLog
    \/ \E w \in 1..Len(workers) : WaitForGot(w) /\ NoLog
    \/ \E w \in 1..Len(workers) : WaitForTimeout(w) /\ NoLog
    \/ \E w \in 1..Len(workers) : ProviderReturn(w) /\ NoLog
    \/ \E w \in 1..Len(workers) : ProviderRaise(w, HttpError(400)) /\ NoLog
    \/ \E w \in 1..Len(workers) : WorkerCancelled(w) /\ NoLog
    \/ now < MaxTime /\ Tick(1) /\ NoLog

Spec == Init /\ [][Next]_vars

\* The request queue and its one consumer, observed, for every batch size and
\* timeout.
InitQueue == \E bs \in 0..MaxBatchSize, to \in 0..MaxTimeout :
                 InitGateway("LLMGateway", [m \in Models |-> ModelConfig(bs, to, 0, 0)],
                             DefaultRetryPolicy)

NextQueue ==
    \/ workers = <<>> /\ Start /\ NoLog
    \/ \E m \in Models, c \in Messages :
           Len(reqs) < MaxPuts /\ Request(RequestId(Len(reqs) + 1), m, c) /\ PutLog
    \/ \E w \in 1..Len(workers) : WorkerRun(w) /\ GetBatchLog(w, TRUE)
    \/ \E w \in 1..Len(workers) : QueueGetFirst(w) /\ GetBatchLog(w, FALSE)
    \/ \E w \in 1..Len(workers) : WaitForGot(w) /\ GetBatchLog(w, FALSE)
    \/ \E w \in 1..Len(workers) : WaitForTimeout(w) /\ GetBatchLog(w, FALSE)
    \/ \E w \in 1..Len(workers) : ProviderReturn(w) /\ GetBatchLog(w, TRUE)
    \/ now < MaxClock /\ Tick(1) /\ NoLog

SpecQueue == InitQueue /\ [][NextQueue]_vars

\* One queue and several consumers (start() called more than once).
NextConsumers ==
    \/ Len(workers) < MaxConsumers /\ Start /\ NoLog
    \/ \E m \in Models, c \in Messages :
           Len(reqs) < MaxEntries /\ Request(RequestId(Len(reqs) + 1), m, c) /\ NoLog
    \/ \E w \in 1..Len(workers) : WorkerRun(w) /\ BatchLog(w)
    \/ \E w \in 1..Len(workers) : QueueGetFirst(w) /\ BatchLog(w)
    \/ \E w \in 1..Len(workers) : WaitForGot(w) /\ BatchLog(w)
    \/ \E w \in 1..Len(workers) : WaitForTimeout(w) /\ BatchLog(w)
    \/ \E w \in 1..Len(workers) : ProviderReturn(w) /\ BatchLog(w)
    \/ now < MaxWait /\ Tick(1) /\ NoLog

SpecConsumers == Init /\ [][NextConsumers]_vars

\* The gateway with retry, its provider failing in every way.
InitRetry == InitGateway("LLMGatewayWithRetry",
                         [m \in Models |-> ModelConfig(BatchSize, Timeout, 0, 0)],
                         RetryPolicy(DefaultMaxRetries, RetryDelay,
                                     DefaultBackoffMultiplier, RetryJitter))

NextRetry ==
    \/ workers = <<>> /\ Start /\ NoLog
    \/ \E m \in Models, c \in Messages :
           Len(reqs) < MaxRetryRequests /\ Request(RequestId(Len(reqs) + 1), m, c) /\ NoLog
    \/ \E w \in 1..Len(workers) : WorkerRun(w) /\ NoLog
    \/ \E w \in 1..Len(workers) : QueueGetFirst(w) /\ NoLog
    \/ \E w \in 1..Len(workers) : WaitForGot(w) /\ NoLog
    \/ \E w \in 1..Len(workers) : WaitForTimeout(w) /\ NoLog
    \/ \E w \in 1..Len(workers) : ProviderReturn(w) /\ NoLog
    \/ \E w \in 1..Len(workers), e \in Errors : ProviderRaise(w, e) /\ NoLog
    \/ \E w \in 1..Len(workers), e \in Errors \cup {NoError}, le \in LogErrors,
          j \in -retry_policy.jitter_ms..retry_policy.jitter_ms :
           ErrorLogRaises(w, e, le, j) /\ NoLog
    \/ \E w \in 1..Len(workers) : RetrySleepDone(w) /\ NoLog
    \/ now < MaxRetryTime /\ Tick(1) /\ NoLog

SpecRetry == InitRetry /\ [][NextRetry]_vars

\* The gateway with retries and its lifecycle: stop() may cancel the worker
\* at any of its awaits.
NextRetryStop ==
    \/ workers = <<>> /\ Start /\ NoLog
    \/ stops < MaxStops /\ Stop /\ NoLog
    \/ StopReturn /\ NoLog
    \/ \E m \in Models, c \in Messages :
           Len(reqs) < MaxStopRequests /\ Request(RequestId(Len(reqs) + 1), m, c) /\ NoLog
    \/ \E w \in 1..Len(workers) : WorkerRun(w) /\ NoLog
    \/ \E w \in 1..Len(workers) : QueueGetFirst(w) /\ NoLog
    \/ \E w \in 1..Len(workers) : WaitForGot(w) /\ NoLog
    \/ \E w \in 1..Len(workers) : WaitForTimeout(w) /\ NoLog
    \/ \E w \in 1..Len(workers) : ProviderReturn(w) /\ NoLog
    \/ \E w \in 1..Len(workers), e \in Errors : ProviderRaise(w, e) /\ NoLog
    \/ \E w \in 1..Len(workers), e \in Errors \cup {NoError}, le \in LogErrors,
          j \in -retry_policy.jitter_ms..retry_policy.jitter_ms :
           ErrorLogRaises(w, e, le, j) /\ NoLog
    \/ \E w \in 1..Len(workers) : RetrySleepDone(w) /\ NoLog
    \/ \E w \in 1..Len(workers) : WorkerCancelled(w) /\ NoLog
    \/ now < MaxStopTime /\ Tick(1) /\ NoLog

SpecRetryStop == InitRetry /\ [][NextRetryStop]_vars

\* The gateway with retries under every small retry policy and one request:
\* the delays of the retry loop and the sleeps it takes are logged.
DelayPolicies ==
    {RetryPolicy(DefaultMaxRetries, d, b, j) :
         d \in 0..MaxInitialDelay, b \in 1..MaxMultiplier, j \in 0..MaxJitter}

InitDelay ==
    \E policy \in DelayPolicies :
        InitGateway("LLMGatewayWithRetry",
                    [m \in Models |-> ModelConfig(BatchSize, Timeout, 0, 0)], policy)

NextDelay ==
    \/ workers = <<>> /\ Start /\ NoLog
    \/ \E m \in Models, c \in Messages :
           reqs = <<>> /\ Request(RequestId(1), m, c) /\ NoLog
    \/ \E w \in 1..Len(workers) : WorkerRun(w) /\ NoLog
    \/ \E w \in 1..Len(workers) : QueueGetFirst(w) /\ NoLog
    \/ \E w \in 1..Len(workers) : WaitForTimeout(w) /\ NoLog
    \/ \E w \in 1..Len(workers) : ProviderReturn(w) /\ NoLog
    \/ \E w \in 1..Len(workers) : ProviderRaise(w, HttpError(503)) /\ NoLog
    \/ \E w \in 1..Len(workers), le \in LogErrors,
          j \in -retry_policy.jitter_ms..retry_policy.jitter_ms :
           ErrorLogRaises(w, HttpError(503), le, j) /\ DelayLog(w, j)
    \/ \E w \in 1..Len(workers) : RetrySleepDone(w) /\ SleptLog(w)
    \/ now < MaxDelayTime /\ Tick(1) /\ NoLog

SpecDelay == InitDelay /\ [][NextDelay]_vars

\* The gateway of two models and a caller of batch().
BatchModels == {"m1", "m2"}

\* the lists of at most n requests for the models of BatchModels, request k
\* with the id RequestId(k)
RECURSIVE Inputs(_)
Inputs(n) ==
    IF n = 0 THEN {<<>>}
    ELSE Inputs(n - 1) \cup
         {Append(rs, LLMRequest(RequestId(n), m, c, stops)) :
              rs \in {x \in Inputs(n - 1) : Len(x) = n - 1}, m \in BatchModels, c \in Messages}

InitBatch == InitGateway("LLMGateway",
                         [m \in BatchModels |-> ModelConfig(BatchSize, Timeout, 0, 0)],
                         DefaultRetryPolicy)

NextBatch ==
    \/ workers = <<>> /\ Start /\ NoLog
    \/ \E requests \in Inputs(MaxBatchInput) :
           Len(calls) < MaxCalls /\ Batch(requests) /\ Unlogged /\ Unrouted
    \/ \E c \in 1..Len(calls) : BatchGatherReturn(c) /\ Unlogged /\ Unrouted
    \/ \E c \in 1..Len(calls) : BatchGatherRaise(c) /\ Unlogged /\ Unrouted
    \/ \E w \in 1..Len(workers) : WorkerRun(w) /\ NoLog
    \/ \E w \in 1..Len(workers) : QueueGetFirst(w) /\ NoLog
    \/ \E w \in 1..Len(workers) : WaitForGot(w) /\ NoLog
    \/ \E w \in 1..Len(workers) : WaitForTimeout(w) /\ NoLog
    \/ \E w \in 1..Len(workers) : ProviderReturn(w) /\ NoLog
    \/ \E w \in 1..Len(workers) : ProviderRaise(w, HttpError(400)) /\ NoLog
    \/ now < MaxBatchTime /\ Tick(1) /\ NoLog

SpecBatch == InitBatch /\ [][NextBatch]_vars

\* The router alone: requests registered under a few ids, responses and
\* errors for any of the ids, in any order and any number of times, and
\* callers that cancel their futures.
RouterIds == {RequestId(k) : k \in 1..MaxRouterIds}

RouterContents == {"a", "b"}

InitRouterSpec == InitGateway("LLMGatewayWithRetry",
                              [m \in Models |-> ModelConfig(BatchSize, Timeout, 0, 0)],
                              DefaultRetryPolicy)

NextRouter ==
    \/ \E id \in RouterIds, c \in Messages :
           Len(reqs) < MaxRegistered /\ RouterRegister(id, "m1", c) /\ Unlogged /\ UNCHANGED simple
    \/ \E id \in RouterIds, c \in RouterContents :
           /\ router.warnings < MaxWarnings
           /\ RouterResolve([request_id |-> id, content |-> c])
           /\ Unlogged /\ UNCHANGED simple
    \/ \E id \in RouterIds :
           /\ router.warnings < MaxWarnings
           /\ RouterResolveError(id, HttpError(400))
           /\ Unlogged /\ UNCHANGED simple
    \/ \E i \in 1..Len(futs) : CallerCancel(i) /\ NoLog

SpecRouter == InitRouterSpec /\ [][NextRouter]_vars

\* The gateway with its router: requests through the worker's batches and
\* requests registered with the router, and callers that cancel either.
NextHandles ==
    \/ workers = <<>> /\ Start /\ NoLog
    \/ \E m \in Models, c \in Messages :
           Len(reqs) < MaxHandles /\ Request(RequestId(Len(reqs) + 1), m, c) /\ NoLog
    \/ \E c \in Messages :
           /\ Len(reqs) < MaxHandles
           /\ RouterRegister(RequestId(Len(reqs) + 1), "m1", c)
           /\ Unlogged /\ UNCHANGED simple
    \/ \E id \in {RequestId(k) : k \in 1..Len(reqs)} :
           /\ router.warnings < MaxWarnings
           /\ RouterResolve([request_id |-> id, content |-> "a"])
           /\ Unlogged /\ UNCHANGED simple
    \/ \E id \in {RequestId(k) : k \in 1..Len(reqs)} :
           /\ router.warnings < MaxWarnings
           /\ RouterResolveError(id, HttpError(400))
           /\ Unlogged /\ UNCHANGED simple
    \/ \E i \in 1..Len(futs) : CallerCancel(i) /\ NoLog
    \/ \E w \in 1..Len(workers) : WorkerRun(w) /\ BatchLog(w)
    \/ \E w \in 1..Len(workers) : QueueGetFirst(w) /\ BatchLog(w)
    \/ \E w \in 1..Len(workers) : WaitForGot(w) /\ BatchLog(w)
    \/ \E w \in 1..Len(workers) : WaitForTimeout(w) /\ BatchLog(w)
    \/ \E w \in 1..Len(workers) : ProviderReturn(w) /\ BatchLog(w)
    \/ \E w \in 1..Len(workers) : ProviderRaise(w, HttpError(400)) /\ BatchLog(w)
    \/ now < MaxHandleTime /\ Tick(1) /\ NoLog

SpecHandles == InitRouterSpec /\ [][NextHandles]_vars

\* A model id that is not configured.
UnknownModel == "unknown-model"

\* A SimpleLLMGateway and its callers; the provider answers every ainvoke
\* with a response or with one of SimpleErrors.
SimpleErrors == {HttpError(408), HttpError(504), HttpError(500), OtherError("TimeoutError")}

InitSimple == InitGateway("SimpleLLMGateway",
                          [m \in Models |-> ModelConfig(BatchSize, Timeout, 0, 0)],
                          DefaultRetryPolicy)

NextSimple ==
    \/ \E m \in Models \cup {UnknownModel}, c \in Messages :
           /\ Len(simple) < MaxSimpleCalls
           /\ SimpleRequest(RequestId(Len(simple) + 1), m, c)
           /\ Unlogged
    \/ \E c \in 1..Len(simple) : SimpleReturn(c) /\ Unlogged
    \/ \E c \in 1..Len(simple), e \in SimpleErrors : SimpleRaise(c, e) /\ Unlogged
    \/ \E c \in 1..Len(simple) : SimpleSleepDone(c) /\ Unlogged
    \/ /\ now < MaxSimpleTime
       /\ \A c \in 1..Len(simple) : ~(simple[c].pc = "sleep" /\ now >= simple[c].wake)
       /\ Tick(RETRY_DELAY_MS)
       /\ NoLog

SpecSimple == InitSimple /\ [][NextSimple]_vars

\* A SimpleLLMGateway and a caller of its batch(), with a list of requests
\* for the configured model and for a model that is not configured.
NextSimpleBatch ==
    \/ \E requests \in Inputs(MaxSimpleInput) :
           calls = <<>> /\ SimpleBatch(requests) /\ Unlogged
    \/ \E b \in 1..Len(calls) : SimpleBatchReturn(b) /\ Unlogged
    \/ \E b \in 1..Len(calls), e \in SimpleErrors : SimpleBatchRaise(b, e) /\ Unlogged
    \/ \E b \in 1..Len(calls) : SimpleBatchSleepDone(b) /\ Unlogged
    \/ /\ now < MaxSimpleBatchTime
       /\ \A c \in 1..Len(simple) : ~(simple[c].pc = "sleep" /\ now >= simple[c].wake)
       /\ Tick(RETRY_DELAY_MS)
       /\ NoLog

SpecSimpleBatch == InitSimple /\ [][NextSimpleBatch]_vars

\* The gateway with a provider adaptor that may return fewer results than
\* it was given inputs.
NextProvider ==
    \/ workers = <<>> /\ Start /\ NoLog
    \/ \E m \in Models, c \in Messages :
           Len(reqs) < MaxProviderRequests /\ Request(RequestId(Len(reqs) + 1), m, c) /\ NoLog
    \/ \E w \in 1..Len(workers) : WorkerRun(w) /\ BatchLog(w)
    \/ \E w \in 1..Len(workers) : QueueGetFirst(w) /\ BatchLog(w)
    \/ \E w \in 1..Len(workers) : WaitForGot(w) /\ BatchLog(w)
    \/ \E w \in 1..Len(workers) : WaitForTimeout(w) /\ BatchLog(w)
    \/ \E w \in 1..Len(workers) : ProviderReturn(w) /\ BatchLog(w)
    \/ \E w \in 1..Len(workers), n \in 0..BatchSize :
           ProviderReturnFewer(w, n) /\ BatchLog(w)
    \/ \E w \in 1..Len(workers) : ProviderRaise(w, HttpError(400)) /\ BatchLog(w)
    \/ now < MaxProviderTime /\ Tick(1) /\ NoLog

SpecProvider == Init /\ [][NextProvider]_vars

\* The callers of RetryPolicy.should_retry, with errors of every class the
\* method tells apart, status codes at and beside the ends of the ranges it
\* compares with, and every attempt number of the loop.
RetryStatuses == {399, 400, 404, 428, 429, 430, 499, 500, 503, 599, 600}

RetryErrors == {HttpError(st) : st \in RetryStatuses}
                   \cup {OtherError(k) : k \in {"ConnectionError", "TimeoutError",
                                                "ValueError", "RuntimeError"}}

NextShouldRetry ==
    \E e \in RetryErrors, attempt \in 0..MaxAttempt :
        Len(eval) < MaxEvals /\ ShouldRetryCall(e, attempt)

SpecShouldRetry == InitRetry /\ [][NextShouldRetry]_vars

\* The gateway and requests of every kind: for a model that is not
\* configured, with an empty list of messages.

NextRequests ==
    \/ workers = <<>> /\ Start /\ NoLog
    \/ \E m \in Models \cup {UnknownModel}, c \in Messages \cup {<<>>} :
           Len(reqs) < MaxAnyRequests /\ Request(RequestId(Len(reqs) + 1), m, c) /\ NoLog
    \/ \E w \in 1..Len(workers) : WorkerRun(w) /\ BatchLog(w)
    \/ \E w \in 1..Len(workers) : QueueGetFirst(w) /\ BatchLog(w)
    \/ \E w \in 1..Len(workers) : WaitForGot(w) /\ BatchLog(w)
    \/ \E w \in 1..Len(workers) : WaitForTimeout(w) /\ BatchLog(w)
    \/ \E w \in 1..Len(workers) : ProviderReturn(w) /\ BatchLog(w)
    \/ \E w \in 1..Len(workers) : ProviderRaise(w, HttpError(400)) /\ BatchLog(w)
    \/ now < MaxAnyTime /\ Tick(1) /\ NoLog

SpecRequests == Init /\ [][NextRequests]_vars

\* The gateway with rate limits; time goes in steps of half a window.
RateStep == (WindowSeconds * 1000) \div 2

InitRate == \E rpm \in 0..MaxRpm, tpm \in {0, MaxTpm} :
                InitGateway("LLMGatewayWithRateLimit",
                            [m \in Models |-> ModelConfig(BatchSize, Timeout, rpm, tpm)],
                            DefaultRetryPolicy)

NextRate ==
    \/ workers = <<>> /\ Start /\ NoLog
    \/ \E m \in Models, c \in Messages :
           Len(reqs) < MaxRateRequests /\ Request(RequestId(Len(reqs) + 1), m, c) /\ NoLog
    \/ \E w \in 1..Len(workers) : WorkerRun(w) /\ SendLog(w)
    \/ \E w \in 1..Len(workers) : QueueGetFirst(w) /\ SendLog(w)
    \/ \E w \in 1..Len(workers) : WaitForGot(w) /\ SendLog(w)
    \/ \E w \in 1..Len(workers) : WaitForTimeout(w) /\ SendLog(w)
    \/ \E w \in 1..Len(workers) : ProviderReturn(w) /\ SendLog(w)
    \/ \E w \in 1..Len(workers) : RateSleepDone(w) /\ SendLog(w)
    \/ \E i \in 1..Len(futs) : RegisterRequest(i) /\ NoLog
    \/ now < MaxSteps * RateStep /\ Tick(RateStep) /\ NoLog

SpecRate == InitRate /\ [][NextRate]_vars

\* The worker loop of the gateway under errors that leave execute_batch (a
\* log file that cannot be written) and under stop().  eval gets, for every
\* such error, the number of requests made before it.
RaiseLog ==
    /\ Apart
    /\ eval' = Append(eval, [op |-> "raised", requests |-> Len(reqs)])
    /\ UNCHANGED <<batches, clock>>

NextWorker ==
    \/ Len(workers) < MaxWorkerTasks /\ Start /\ NoLog
    \/ stops < MaxWorkerStops /\ Stop /\ NoLog
    \/ StopReturn /\ NoLog
    \/ \E m \in Models, c \in Messages :
           Len(reqs) < MaxWorkerRequests /\ Request(RequestId(Len(reqs) + 1), m, c) /\ NoLog
    \/ \E w \in 1..Len(workers) : WorkerRun(w) /\ NoLog
    \/ \E w \in 1..Len(workers) : QueueGetFirst(w) /\ NoLog
    \/ \E w \in 1..Len(workers) : WaitForGot(w) /\ NoLog
    \/ \E w \in 1..Len(workers) : WaitForTimeout(w) /\ NoLog
    \/ \E w \in 1..Len(workers) : ProviderReturn(w) /\ NoLog
    \/ \E w \in 1..Len(workers) : ProviderRaise(w, HttpError(400)) /\ NoLog
    \/ \E w \in 1..Len(workers), e \in {NoError, HttpError(400)}, le \in LogErrors :
           Len(eval) < MaxWorkerRaises /\ ErrorLogRaises(w, e, le, 0) /\ RaiseLog
    \/ \E w \in 1..Len(workers) : WorkerCancelled(w) /\ NoLog
    \/ now < MaxWorkerTime /\ Tick(1) /\ NoLog

SpecWorker == Init /\ [][NextWorker]_vars

\* The gateway with rate limits for two models, started once: its executors
\* wait for the rate limit and retry after a log file that cannot be written,
\* and the owner registers responses.  Time passes in milliseconds up to the
\* first retry delay and in half windows after.
InitModels == InitGateway("LLMGatewayWithRateLimit",
                          [m \in BatchModels |-> ModelConfig(BatchSize, Timeout, 1, 0)],
                          RetryPolicy(DefaultMaxRetries, RetryDelay,
                                      DefaultBackoffMultiplier, RetryJitter))

NextModels ==
    \/ workers = <<>> /\ Start /\ NoLog
    \/ \E m \in BatchModels, c \in Messages :
           Len(reqs) < MaxModelsRequests /\ Request(RequestId(Len(reqs) + 1), m, c) /\ NoLog
    \/ \E w \in 1..Len(workers) : WorkerRun(w) /\ NoLog
    \/ \E w \in 1..Len(workers) : QueueGetFirst(w) /\ NoLog
    \/ \E w \in 1..Len(workers) : WaitForGot(w) /\ NoLog
    \/ \E w \in 1..Len(workers) : WaitForTimeout(w) /\ NoLog
    \/ \E w \in 1..Len(workers) : ProviderReturn(w) /\ NoLog
    \/ \E w \in 1..Len(workers) :
           /\ eval = <<>>
           /\ ErrorLogRaises(w, NoError, OtherError("TimeoutError"), 0)
           /\ RaiseLog
    \/ \E w \in 1..Len(workers) : RetrySleepDone(w) /\ NoLog
    \/ \E w \in 1..Len(workers) : RateSleepDone(w) /\ NoLog
    \/ \E i \in 1..Len(futs) : RegisterRequest(i) /\ NoLog
    \/ now < RetryDelay /\ Tick(1) /\ NoLog
    \/ now < MaxModelsSteps * RateStep /\ Tick(RateStep) /\ NoLog

SpecModels == InitModels /\ [][NextModels]_vars

\* An agent and the gateway it calls: one run of the loop.  The gateway
\* answers each request with an answer or with one or two tool calls, for a
\* tool the agent has or for one it has not, or raises; a tool returns or
\* raises.  After the first MaxVaried iterations the gateway repeats one call
\* of the agent's tool, which succeeds, or gives the answer.
ToolNames == AgentTools \cup {"unknown_tool"}

ToolCallLists(i) ==
    {<<ToolCall(<<"call", i, 1>>, a)>> : a \in ToolNames} \cup
    {<<ToolCall(<<"call", i, 1>>, a), ToolCall(<<"call", i, 2>>, b)>> :
         a \in ToolNames, b \in ToolNames}

Responses(i) ==
    {[content |-> <<"answer">>, tool_calls |-> <<>>]} \cup
    {[content |-> <<>>, tool_calls |-> tcs] :
         tcs \in IF i < MaxVaried THEN ToolCallLists(i)
                 ELSE {<<ToolCall(<<"call", i, 1>>, "dummy_tool")>>}}

ResponseLog(response) == /\ eval' = Append(eval, response)
                         /\ UNCHANGED <<batches, clock>>

NextAgent ==
    \/ calls = <<>> /\ SgrLoop("agent", "m1", <<"x">>) /\ Unlogged
    \/ \E c \in 1..Len(calls) : \E response \in Responses(calls[c].iteration) :
           SgrResponse(c, response) /\ ResponseLog(response)
    \/ \E c \in 1..Len(calls) :
           SgrRequestRaise(c, OtherError("ConnectionError")) /\ Unlogged
    \/ \E c \in 1..Len(calls) : ToolReturn(c, <<"result">>) /\ Unlogged
    \/ \E c \in 1..Len(calls) :
           calls[c].iteration < MaxVaried /\ ToolRaise(c, "ValueError") /\ Unlogged

SpecAgent == InitSimple /\ [][NextAgent]_vars

\* An agent and the gateway it calls, a SimpleLLMGateway or an LLMGateway: the
\* gateway translates the messages of every request the agent sends.  The
\* responses of an LLMGateway are built without tool calls.
GatewayClasses == {"SimpleLLMGateway", "LLMGateway"}

InitTranslate == \E cls \in GatewayClasses :
                     InitGateway(cls, [m \in Models |-> ModelConfig(BatchSize, Timeout, 0, 0)],
                                 DefaultRetryPolicy)

Translate(request) == IF gateway = "SimpleLLMGateway" THEN SimpleLcMessages(request)
                      ELSE LcMessages(request)

TranslateLog ==
    /\ eval' = IF Len(reqs') > Len(reqs)
               THEN Append(eval, [op |-> "lc_messages", request |-> reqs'[Len(reqs')],
                                  result |-> Translate(reqs'[Len(reqs')])])
               ELSE eval
    /\ UNCHANGED <<batches, clock>>

NextTranslate ==
    \/ calls = <<>> /\ SgrLoop("agent", "m1", <<"x">>) /\ TranslateLog
    \/ \E c \in 1..Len(calls) : \E response \in Responses(calls[c].iteration) :
           /\ gateway = "LLMGateway" => response.tool_calls = <<>>
           /\ SgrResponse(c, response)
           /\ TranslateLog
    \/ \E c \in 1..Len(calls) :
           SgrRequestRaise(c, OtherError("ConnectionError")) /\ Unlogged
    \/ \E c \in 1..Len(calls) : ToolReturn(c, <<"result">>) /\ TranslateLog
    \/ \E c \in 1..Len(calls) :
           calls[c].iteration < MaxVaried /\ ToolRaise(c, "ValueError") /\ TranslateLog

SpecTranslate == InitTranslate /\ [][NextTranslate]_vars

\* The router with a log_dir: requests of two agents registered under a few
\* ids, responses and errors for any of the ids, and the entries written to
\* responses.jsonl and errors.jsonl.
AgentIds == {"a1", "a2"}

NextRouterLog ==
    \/ \E id \in RouterIds, c \in Messages, a \in AgentIds :
           /\ Len(reqs) < MaxRegistered
           /\ RouterRegisterAgent(id, "m1", c, a)
           /\ Unlogged /\ UNCHANGED simple
    \/ \E id \in RouterIds, c \in RouterContents :
           /\ router.warnings < MaxWarnings
           /\ RouterResolve([request_id |-> id, content |-> c])
           /\ RouterLog("responses.jsonl", id, "success") /\ UNCHANGED simple
    \/ \E id \in RouterIds :
           /\ router.warnings < MaxWarnings
           /\ RouterResolveError(id, HttpError(400))
           /\ RouterLog("errors.jsonl", id, "error") /\ UNCHANGED simple
    \/ \E i \in 1..Len(futs) : CallerCancel(i) /\ NoLog

SpecRouterLog == InitRouterSpec /\ [][NextRouterLog]_vars

\* The gateway with rate limits, whose executor runs the retry loop under the
\* rate-limit loop: a write of errors.jsonl or batches.jsonl that fails takes
\* the retry loop round, and the owner registers the responses it has got.
\* Time passes in milliseconds for the retry delays and in half windows for
\* the rate-limit waits.
InitRateRetry == \E rpm \in 1..MaxRpm :
                     InitGateway("LLMGatewayWithRateLimit",
                                 [m \in Models |-> ModelConfig(BatchSize, Timeout, rpm, 0)],
                                 RetryPolicy(DefaultMaxRetries, RetryDelay,
                                             DefaultBackoffMultiplier, RetryJitter))

NextRateRetry ==
    \/ workers = <<>> /\ Start /\ NoLog
    \/ \E m \in Models, c \in Messages :
           Len(reqs) < MaxRateRetryRequests /\ Request(RequestId(Len(reqs) + 1), m, c) /\ NoLog
    \/ \E w \in 1..Len(workers) : WorkerRun(w) /\ NoLog
    \/ \E w \in 1..Len(workers) : QueueGetFirst(w) /\ NoLog
    \/ \E w \in 1..Len(workers) : WaitForGot(w) /\ NoLog
    \/ \E w \in 1..Len(workers) : WaitForTimeout(w) /\ NoLog
    \/ \E w \in 1..Len(workers) : ProviderReturn(w) /\ NoLog
    \/ \E w \in 1..Len(workers), le \in LogErrors,
          j \in -retry_policy.jitter_ms..retry_policy.jitter_ms :
           ErrorLogRaises(w, NoError, le, j) /\ NoLog
    \/ \E w \in 1..Len(workers) : RetrySleepDone(w) /\ NoLog
    \/ \E w \in 1..Len(workers) : RateSleepDone(w) /\ NoLog
    \/ \E i \in 1..Len(futs) : RegisterRequest(i) /\ NoLog
    \/ now % RateStep < MaxRateRetryTime /\ Tick(1) /\ NoLog
    \/ now < MaxRateRetrySteps * RateStep /\ Tick(RateStep) /\ NoLog

SpecRateRetry == InitRateRetry /\ [][NextRateRetry]_vars

\* The tracker of a model on its own: samples of 500 and 1000 tokens are
\* recorded and the tracker is asked with the limits of the model's
\* configuration (RateLimiter.check_request, lines 231-238), while time passes
\* in half windows.
TrackerTokens == {500, 1000}

InitTracker == \E rpm \in 0..MaxTrackerRpm, tpm \in {0, MaxTrackerTpm} :
                   InitGateway("LLMGatewayWithRateLimit",
                               [m \in Models |-> ModelConfig(BatchSize, Timeout, rpm, tpm)],
                               DefaultRetryPolicy)

NextTracker ==
    \/ \E m \in Models, tokens \in TrackerTokens :
           Len(eval) < MaxTrackerOps /\ TrackerAddRequest(m, tokens)
    \/ \E m \in Models : Len(eval) < MaxTrackerOps /\ TrackerGetUsage(m)
    \/ \E m \in Models :
           /\ Len(eval) < MaxTrackerOps
           /\ TrackerCanMakeRequest(m, configs[m].max_requests_per_minute,
                                    configs[m].max_tokens_per_minute)
    \/ \E m \in Models :
           /\ Len(eval) < MaxTrackerOps
           /\ TrackerWaitUntilAvailable(m, configs[m].max_requests_per_minute,
                                        configs[m].max_tokens_per_minute)
    \/ now < MaxTrackerSteps * RateStep /\ Tick(RateStep) /\ NoLog

SpecTracker == InitTracker /\ [][NextTracker]_vars

----------------------------------------------------------------------------
(* The claims *)

Submitted == {i \in 1..Len(reqs) : IsModel(reqs[i].model)}
Queued == {i \in Submitted : \E k \in 1..Len(queues[reqs[i].model]) :
                                 queues[reqs[i].model][k] = i}
StopReturned == stops > 0 /\ stopping = 0
Quiet == \A w \in 1..Len(workers) : ~Live(w)
BatchInputs(batch) == [p \in 1..Len(batch) |-> LcMessages(reqs[batch[p]])]

\* C1: no orphans.  Once stop() has returned and no worker task is left (so no
\* provider call is outstanding), every future of a request submitted before
\* that stop() is done: resolved, rejected or cancelled.
C1_NoOrphans ==
    (StopReturned /\ Quiet) =>
        \A i \in Submitted : reqs[i].epoch < stops => Done(futs[i])

\* C2: when stop() has returned, every future submitted before it whose request
\* still waits in a model queue is done and holds a cancellation.
C2_StopCancelsQueued ==
    StopReturned =>
        \A i \in Queued : reqs[i].epoch < stops => futs[i].st = "cancelled"

\* C3: request/response identity.  Whenever a pending future is resolved with a
\* response, that response carries the request_id of the future's own request
\* and the provider's result at the request's position in the executed batch.
C3_ResponseIdentity ==
    [][\A i \in 1..Len(futs) :
          (futs[i].st = "pending" /\ futs'[i].st = "result") =>
              \E w \in 1..Len(workers) : \E p \in 1..Len(workers[w].requests) :
                  /\ workers[w].pc = "abatch"
                  /\ workers[w].requests[p] = i
                  /\ futs'[i].value.request_id = reqs[i].request_id
                  /\ futs'[i].value.content =
                         Abatch(BatchInputs(workers[w].requests))[p].content]_vars

C3_Witness ==
    \E i, j \in 1..Len(futs) :
        /\ i # j
        /\ futs[i].st = "result" /\ futs[i].value.content.position = 1
        /\ futs[j].st = "result" /\ futs[j].value.content.position = 2

\* C4: over all batches returned by get_batch, also with several consumers on
\* one queue, every submitted (request, future) pair occurs at most once.
C4_AtMostOneBatch ==
    \A i \in 1..Len(reqs) :
        Cardinality({bp \in {<<b, p>> : b \in 1..Len(batches), p \in 1..MaxEntries + 1} :
                        /\ bp[2] <= Len(batches[bp[1]].entries)
                        /\ batches[bp[1]].entries[bp[2]] = i}) <= 1

C4_Witness ==
    /\ Len(workers) >= 2
    /\ \A w \in 1..2 : workers[w].pc = "abatch"
    /\ Len(batches) >= 2

\* C5 as claimed: no batch returned by get_batch holds more than batch_size
\* entries, whatever the configured batch_size.
C5_BatchBound ==
    \A b \in 1..Len(batches) :
        Len(batches[b].entries) <= configs[batches[b].model].batch_size

\* C5 as amended: no batch holds more than max(batch_size, 1) entries (the
\* first entry is taken before the size is looked at).
C5_BatchBoundAmended ==
    \A b \in 1..Len(batches) :
        Len(batches[b].entries) <= Max(configs[batches[b].model].batch_size, 1)

C5_Witness ==
    \E b \in 1..Len(batches) :
        /\ configs[batches[b].model].batch_size = 2
        /\ Len(batches[b].entries) = 2
        /\ Len(queues[batches[b].model]) > 0

\* C6: FIFO within a model.  The entries of every batch are in the order of
\* their puts, and with a single worker the batches are too: no request put
\* earlier is in a later batch than one put after it.
C6_Fifo ==
    /\ \A b \in 1..Len(batches) : \A p, r \in 1..Len(batches[b].entries) :
           p < r => batches[b].entries[p] < batches[b].entries[r]
    /\ Len(workers) <= 1 =>
           \A b, d \in 1..Len(batches) :
               b < d => \A p \in 1..Len(batches[b].entries), r \in 1..Len(batches[d].entries) :
                            batches[b].entries[p] < batches[d].entries[r]

C6_Witness ==
    /\ Len(workers) = 1
    /\ Len(batches) = 2
    /\ Len(batches[1].entries) = 2
    /\ batches[2].entries = <<3>>

\* C7: the batch timeout runs from the arrival of the first request.  If the
\* worker was already blocked in get_batch when the first entry of a batch was
\* put and batch_size >= 2, the next request, put later than the first but less
\* than batch_timeout_ms after it, is in the same batch.
C7_TimeoutFromFirstArrival ==
    \A b \in 1..Len(batches) :
        LET first == batches[b].entries[1]
            cfg == configs[batches[b].model]
        IN  (/\ cfg.batch_size >= 2
             /\ clock.batch[b].called < clock.put[first]
             /\ first + 1 <= Len(reqs)
             /\ clock.put[first + 1] > clock.put[first]
             /\ clock.put[first + 1] - clock.put[first] < cfg.batch_timeout_ms)
            => \E p \in 1..Len(batches[b].entries) : batches[b].entries[p] = first + 1

\* C8 as claimed: a batch returned with fewer than batch_size entries was
\* returned at most batch_timeout_ms after the put of its first entry.
C8_DeadlineFromFirstPut ==
    \A b \in 1..Len(batches) :
        Len(batches[b].entries) < configs[batches[b].model].batch_size =>
            clock.batch[b].returned - clock.put[batches[b].entries[1]]
                <= configs[batches[b].model].batch_timeout_ms

\* C8 as amended: a batch returned with fewer than batch_size entries was
\* returned at most batch_timeout_ms after the later of the put of its first
\* entry and the call of get_batch.
C8_DeadlineAmended ==
    \A b \in 1..Len(batches) :
        Len(batches[b].entries) < configs[batches[b].model].batch_size =>
            clock.batch[b].returned
                - Max(clock.put[batches[b].entries[1]], clock.batch[b].called)
                <= configs[batches[b].model].batch_timeout_ms

C8_Witness ==
    \E b \in 1..Len(batches) :
        /\ Len(batches[b].entries) < configs[batches[b].model].batch_size
        /\ clock.put[batches[b].entries[1]] < clock.batch[b].called
        /\ configs[batches[b].model].batch_timeout_ms = 2
        /\ clock.batch[b].returned - clock.batch[b].called = 2

\* the requests passed to the provider for model m from time t on, less than a
\* window after t
Admitted(m, t) == {k \in 1..Len(clock.sent) :
                      /\ clock.sent[k].model = m
                      /\ t <= clock.sent[k].at
                      /\ clock.sent[k].at < t + WindowSeconds * 1000}

\* C9: rate-limit safety.  For a model with max_requests_per_minute set, the
\* requests that execute_batch passes to the provider within any window of 60
\* seconds are at most max_requests_per_minute; with max_tokens_per_minute set,
\* the token sum recorded in the window is at most max_tokens_per_minute.
C9_RateLimitSafety ==
    \A m \in DOMAIN configs :
        /\ configs[m].max_requests_per_minute # 0 =>
               \A a \in 1..Len(clock.sent) :
                   Cardinality(Admitted(m, clock.sent[a].at))
                       <= configs[m].max_requests_per_minute
        /\ configs[m].max_tokens_per_minute # 0 =>
               GetUsage(trackers[m], now).tokens_count <= configs[m].max_tokens_per_minute

\* C10: retry on transient failure.  With the retry executor, an HTTP 429 of
\* the provider is absorbed while retries are left: a future holds the 429 only
\* when the provider was invoked more than max_retries times for its request.
C10_TransientAbsorbed ==
    \A i \in 1..Len(futs) :
        (futs[i].st = "exception" /\ futs[i].value = HttpError(429)) =>
            sent[i] > retry_policy.max_retries

\* C11: retry exhaustion.  With the retry executor and max_retries = 3, a
\* future that holds the provider's HTTP 503 got it only after the provider
\* was invoked max_retries + 1 times for its batch.
C11_RetryExhaustion ==
    \A i \in 1..Len(futs) :
        (futs[i].st = "exception" /\ futs[i].value = HttpError(503)) =>
            sent[i] = retry_policy.max_retries + 1

\* C12: retry budget.  Whatever the provider and the log writes do, the
\* provider is invoked at most max_retries + 1 times for the batch of a request.
C12_RetryBudget ==
    \A i \in 1..Len(sent) : sent[i] <= retry_policy.max_retries + 1

C12_Witness ==
    \E i \in 1..Len(sent) :
        /\ sent[i] = retry_policy.max_retries + 1
        /\ \E w \in 1..Len(workers) :
               /\ workers[w].pc = "abatch"
               /\ workers[w].attempt = retry_policy.max_retries
               /\ \E p \in 1..Len(workers[w].requests) : workers[w].requests[p] = i

\* request i is in a queue, in the batch a worker holds, or in a logged batch
InQueue(i) == \E m \in DOMAIN queues : \E k \in 1..Len(queues[m]) : queues[m][k] = i
InWorker(i) == \E w \in 1..Len(workers) : \E p \in 1..Len(workers[w].requests) :
                   workers[w].requests[p] = i
InBatch(i) == \E b \in 1..Len(batches) : \E p \in 1..Len(batches[b].entries) :
                  batches[b].entries[p] = i

\* C13: request() for a model that is not configured raises 'Unknown model' in
\* the call itself and leaves the queues, the workers and the batch log as they
\* were; such a request is never in a queue or a batch and never reaches the
\* provider.
C13_UnknownModel ==
    /\ [][(Len(reqs') = Len(reqs) + 1 /\ ~IsModel(reqs'[Len(reqs')].model)) =>
              /\ futs'[Len(reqs')] = [st |-> "raised", value |-> "Unknown model"]
              /\ queues' = queues
              /\ workers' = workers
              /\ batches' = batches
              /\ sent'[Len(reqs')] = 0]_vars
    /\ [](\A i \in 1..Len(reqs) :
              ~IsModel(reqs[i].model) =>
                  /\ futs[i] = [st |-> "raised", value |-> "Unknown model"]
                  /\ sent[i] = 0
                  /\ ~InQueue(i) /\ ~InWorker(i) /\ ~InBatch(i))

C13_Witness ==
    \E i, k \in 1..Len(reqs) :
        /\ i < k
        /\ ~IsModel(reqs[k].model)
        /\ IsModel(reqs[i].model) /\ InQueue(i)
        /\ \E n \in 1..Len(reqs) : sent[n] > 0

\* C14: a request with an empty list of messages is rejected in the call of
\* request(): it is never put on a queue and never sent to the provider.
C14_MalformedRejected ==
    \A i \in 1..Len(reqs) :
        reqs[i].messages = <<>> =>
            /\ futs[i].st = "raised"
            /\ sent[i] = 0
            /\ ~InQueue(i) /\ ~InWorker(i)

\* C15: batch(requests) returns one response per request, in input order:
\* result[i].request_id = requests[i].request_id, also when the models of the
\* requests are interleaved.
C15_BatchInputOrder ==
    \A c \in 1..Len(calls) :
        calls[c].pc = "returned" =>
            /\ Len(calls[c].results) = Len(calls[c].input)
            /\ \A i \in 1..Len(calls[c].input) :
                   calls[c].results[i].request_id = calls[c].input[i].request_id

\* C16: set-once handles.  A future that is done, by its caller's cancellation
\* or otherwise, keeps its state and value in every step; the provider call
\* of a batch that holds such a future ends with every future of the batch
\* done, and a resolve or resolve_error that unregisters an id leaves the
\* future registered for it done.
Delivered(w) == /\ workers[w].pc = "abatch"
                /\ workers'[w] # workers[w]
                /\ workers'[w].pc # "done"
                /\ workers'[w].cancel = workers[w].cancel

C16_SetOnce ==
    [][/\ \A i \in 1..Len(futs) : Done(futs[i]) => futs'[i] = futs[i]
       /\ \A w \in 1..Len(workers) :
              Delivered(w) => \A p \in 1..Len(workers[w].requests) :
                                 Done(futs'[workers[w].requests[p]])
       /\ \A id \in DOMAIN router.pending_futures :
              id \notin DOMAIN router'.pending_futures
                  => Done(futs'[router.pending_futures[id]])]_vars

\* A batch of two was delivered with one future cancelled by its caller and
\* the other resolved, and the router has resolved the id of a future its
\* caller had cancelled.
C16_Witness ==
    /\ \E b \in 1..Len(batches) : \E p, q \in 1..Len(batches[b].entries) :
           /\ futs[batches[b].entries[p]] = Cancelled
           /\ futs[batches[b].entries[q]].st = "result"
           /\ sent[batches[b].entries[p]] = 1
    /\ \E k \in 1..Len(reqs) :
           /\ reqs[k].request_id \in DOMAIN router.resolved
           /\ ~InBatch(k)
           /\ futs[k] = Cancelled

\* C17: idempotent resolution.  A resolve or resolve_error for an id that was
\* resolved or rejected and not registered again since changes no future and
\* neither registry.
Again(id) == \/ \E c \in RouterContents :
                    RouterResolve([request_id |-> id, content |-> c])
             \/ RouterResolveError(id, HttpError(400))

C17_ResolveIdempotent ==
    [][\A id \in DOMAIN router.resolved :
          Again(id) => /\ futs' = futs
                       /\ router'.pending_requests = router.pending_requests
                       /\ router'.pending_futures = router.pending_futures]_vars

\* An id was resolved with a response and a second call was made for it
\* while another id was still registered.
C17_Witness ==
    \E k \in 1..Len(reqs) :
        /\ reqs[k].request_id \in DOMAIN router.resolved
        /\ router.resolved[reqs[k].request_id] >= 2
        /\ futs[k].st = "result"
        /\ router.pending_futures # <<>>

\* C18: one worker per model.  Every configured model has at most one live
\* worker task.
C18_OneWorker ==
    \A m \in DOMAIN configs :
        Cardinality({w \in 1..Len(workers) : workers[w].model = m /\ Live(w)}) <= 1

\* C19: a worker cancelled with requests taken.  When a cancelled worker task
\* ends while get_batch is accumulating its batch or while the provider call
\* for its batch is in flight, no future of the requests it has taken is
\* left pending.
C19_CancelRejects ==
    [][\A w \in 1..Len(workers) :
          (workers[w].pc \in {"wait_for", "abatch"} /\ workers[w].cancel
               /\ workers'[w].pc = "done")
              => \A p \in 1..Len(workers[w].requests) :
                     Done(futs'[workers[w].requests[p]])]_vars

\* C20: SimpleLLMGateway.request retries on HTTP 408 and 504 only.  A call
\* makes at most MAX_RETRIES invocations; every sleep lasts 1 s and follows an
\* invocation that failed with 408 or 504, and every such failure before the
\* last attempt is followed by a sleep; a call that raises a timeout error
\* has made exactly MAX_RETRIES invocations, all timed out, with
\* MAX_RETRIES - 1 sleeps between them; a call that raises another error of
\* the provider raises the error of its last invocation, with no sleep
\* after it.
TimeoutErrors == {HttpError(408), HttpError(504)}

C20_SimpleRetry ==
    \A c \in 1..Len(simple) :
        LET ev == simple[c].events
        IN  /\ simple[c].invoked <= MAX_RETRIES
            /\ \A k \in 1..Len(ev) :
                   IF k % 2 = 1
                   THEN /\ ev[k].op = "ainvoke"
                        /\ (ev[k].error \in TimeoutErrors /\ k < 2 * MAX_RETRIES - 1)
                               => k < Len(ev)
                   ELSE /\ ev[k] = [op |-> "sleep", ms |-> 1000]
                        /\ ev[k - 1].error \in TimeoutErrors
            /\ (simple[c].pc = "raised" /\ simple[c].outcome \in TimeoutErrors)
                   => /\ simple[c].invoked = MAX_RETRIES
                      /\ Len(ev) = 2 * MAX_RETRIES - 1
                      /\ \A k \in 1..Len(ev) : k % 2 = 1 => ev[k].error \in TimeoutErrors
                      /\ ev[Len(ev)].error = simple[c].outcome
            /\ (simple[c].pc = "raised" /\ simple[c].outcome \notin TimeoutErrors
                     /\ IsModel(simple[c].request.model))
                   => /\ ev[Len(ev)] = [op |-> "ainvoke", error |-> simple[c].outcome]
                      /\ simple[c].invoked * 2 = Len(ev) + 1

\* Every invocation of a call timed out, with 408 and with 504, and the call
\* has raised the last timeout error.
C20_Witness ==
    \E c \in 1..Len(simple) :
        /\ simple[c].pc = "raised"
        /\ simple[c].outcome = HttpError(504)
        /\ simple[c].invoked = MAX_RETRIES
        /\ \E k \in 1..Len(simple[c].events) :
               k % 2 = 1 /\ simple[c].events[k].error = HttpError(408)

\* C21: SimpleLLMGateway.batch is sequential.  The request() calls of a
\* batch() are made for its input in input order, each only when every
\* earlier one has returned its response; the responses are those of the
\* input in input order, all of them when batch() returns; when batch()
\* raises, it raises the error of the request() it made last, and no
\* request() is made for any later entry of the input.
C21_SimpleBatchSequential ==
    /\ \A b \in 1..Len(calls) :
           LET st == calls[b].started
           IN  /\ Len(st) <= Len(calls[b].input)
               /\ \A k \in 1..Len(st) :
                      /\ simple[st[k]].request = calls[b].input[k]
                      /\ k < Len(st) => simple[st[k]].pc = "returned"
               /\ Len(calls[b].responses) =
                      Cardinality({k \in 1..Len(st) : simple[st[k]].pc = "returned"})
               /\ \A k \in 1..Len(calls[b].responses) :
                      calls[b].responses[k].request_id = calls[b].input[k].request_id
               /\ calls[b].pc = "returned" => Len(calls[b].responses) = Len(calls[b].input)
               /\ calls[b].pc = "raised"
                      => /\ simple[st[Len(st)]].pc = "raised"
                         /\ calls[b].error = simple[st[Len(st)]].outcome
    /\ \A c \in 1..Len(simple) :
           Cardinality({bk \in {<<b, k>> : b \in 1..Len(calls), k \in 1..MaxSimpleInput + 1} :
                           /\ bk[2] <= Len(calls[bk[1]].started)
                           /\ calls[bk[1]].started[bk[2]] = c}) = 1

\* A batch() of three requests has raised the provider's error for its
\* second request, after the response to the first and a retry.
C21_Witness ==
    \E b \in 1..Len(calls) :
        /\ calls[b].pc = "raised"
        /\ Len(calls[b].input) = 3
        /\ Len(calls[b].started) = 2
        /\ Len(calls[b].responses) = 1
        /\ calls[b].error = HttpError(500)
        /\ simple[calls[b].started[2]].invoked = 2

Executing(b) == \E w \in 1..Len(workers) :
                    workers[w].pc = "abatch" /\ workers[w].requests = batches[b].entries

C23_ExecutedBatchDone ==
    \A b \in 1..Len(batches) :
        ~Executing(b) => \A p \in 1..Len(batches[b].entries) :
                             Done(futs[batches[b].entries[p]])

\* C24: should_retry is the reference table.  HTTP 429: retry; HTTP 5xx:
\* retry; HTTP 4xx other than 429: no retry; a connection failure or a
\* timeout of the transport: retry; any other error: no retry; and two calls
\* with the same error give the same answer whatever their attempt numbers.
RetryTable(e) ==
    CASE e.kind = "HTTPStatusError" /\ e.status = 429 -> TRUE
      [] e.kind = "HTTPStatusError" /\ e.status \in 500..599 -> TRUE
      [] e.kind = "HTTPStatusError" /\ e.status \in (400..499) \ {429} -> FALSE
      [] e.kind \in {"ConnectionError", "TimeoutError"} -> TRUE
      [] OTHER -> FALSE

C25_CancelStopsRetry ==
    [][\A w \in 1..Len(workers) :
          (workers[w].cancel /\ workers'[w] # workers[w])
              => /\ workers'[w].pc = "done"
                 /\ sent' = sent
                 /\ futs' = futs]_vars

\* A worker task was cancelled in the sleep after a failed attempt and has
\* ended, having invoked the provider once for the request it held.
C25_Witness ==
    \E w \in 1..Len(workers) :
        /\ workers[w].pc = "done"
        /\ workers[w].cancel
        /\ workers[w].wake > 0
        /\ \E i \in 1..Len(sent) : sent[i] = 1 /\ futs[i].st = "exception"

\* C26: the delay of get_delay.  d_a is initial_delay_ms times
\* backoff_multiplier to the power a.  As claimed: every delay get_delay
\* returns for attempt a lies between max(0, d_a - jitter_ms) and
\* d_a + jitter_ms.
BaseDelay(a) == retry_policy.initial_delay_ms * Pow(retry_policy.backoff_multiplier, a)

SamplesAt(rs, t) == {k \in 1..Len(rs) : rs[k].at = t}

\* C27: usage is recorded on success.  With the rate-limit executor, the step
\* in which the provider returns the results of a batch adds to the model's
\* tracker one sample per request of the batch, each with the request's input
\* tokens plus the 1000-token estimate (the provider's responses carry no
\* usage).
C27_BatchRecordsUsage ==
    [][\A w \in 1..Len(workers) :
          ProviderReturn(w) =>
              \E ks \in SUBSET SamplesAt(trackers'[workers[w].model], now) :
                  /\ Cardinality(ks) = Len(workers[w].requests)
                  /\ Cardinality(SamplesAt(trackers[workers[w].model], now)) + Cardinality(ks)
                        <= Cardinality(SamplesAt(trackers'[workers[w].model], now))
                  /\ \A p \in 1..Len(workers[w].requests) :
                         \E k \in ks :
                             trackers'[workers[w].model][k].tokens
                                 = TotalTokens(reqs[workers[w].requests[p]])]_vars

\* C28: sliding window.  After every call on a tracker (add_request,
\* get_usage, can_make_request, wait_until_available) made at time t, every
\* sample the tracker holds has a timestamp in (t - window_seconds, t]: a
\* sample exactly window_seconds old is gone.
C28_SlidingWindow ==
    eval # <<>> =>
        \A k \in 1..Len(trackers[eval[Len(eval)].model]) :
            /\ trackers[eval[Len(eval)].model][k].at
                   > eval[Len(eval)].at - WindowSeconds * 1000
            /\ trackers[eval[Len(eval)].model][k].at <= eval[Len(eval)].at

\* the samples of rs that the tracker counts at time t: those not evicted,
\* which are the ones no older than window_seconds
Counted(rs, t) == SelectSeq(rs, LAMBDA r : r.at >= t - WindowSeconds * 1000)

\* C29: admission.  can_make_request(max_rpm, max_tpm) returns ok exactly
\* when (max_rpm is 0 or the number of samples the tracker counts at the call
\* is below max_rpm) and (max_tpm is 0 or the token sum of those samples is
\* below max_tpm); a limit of 0 never blocks.
C29_CanMakeRequest ==
    \A k \in 1..Len(eval) :
        eval[k].op = "can_make_request" =>
            (eval[k].result.ok <=>
                /\ \/ eval[k].max_rpm = 0
                   \/ Len(Counted(eval[k].before, eval[k].at)) < eval[k].max_rpm
                /\ \/ eval[k].max_tpm = 0
                   \/ TokenSum(Counted(eval[k].before, eval[k].at)) < eval[k].max_tpm)

\* can_make_request refused with a sample in the window and, later, with
\* the same limits, admitted once the sample had left the window.
C29_Witness ==
    \E k, n \in 1..Len(eval) :
        /\ k < n
        /\ eval[k].op = "can_make_request" /\ ~eval[k].result.ok
        /\ eval[n].op = "can_make_request" /\ eval[n].result.ok
        /\ eval[n].before # <<>>
        /\ eval[n].max_rpm # 0 \/ eval[n].max_tpm # 0

\* the delays at which the samples of rs reach, and pass, the age of
\* window_seconds when counted from time t
Turns(rs, t) ==
    {0} \cup {rs[k].at + WindowSeconds * 1000 - t + e : k \in 1..Len(rs), e \in {0, 1}}

\* C30: the delay until admission.  When can_make_request refuses at time t,
\* the delay d that wait_until_available returns at t is the soonest at which
\* it admits if no sample is recorded in between: can_make_request admits at
\* t + d and refuses at every earlier time from t on.
C30_SoonestAdmission ==
    \A k \in 1..Len(eval) :
        (/\ eval[k].op = "wait_until_available"
         /\ ~CanMakeRequest(eval[k].before, eval[k].at,
                            eval[k].max_rpm, eval[k].max_tpm).ok)
            => /\ CanMakeRequest(eval[k].before, eval[k].at + eval[k].result,
                                 eval[k].max_rpm, eval[k].max_tpm).ok
               /\ \A d \in Turns(eval[k].before, eval[k].at) :
                      (0 <= d /\ d < eval[k].result)
                          => ~CanMakeRequest(eval[k].before, eval[k].at + d,
                                             eval[k].max_rpm, eval[k].max_tpm).ok

\* C31: a delay of 0 means the limits cannot be met.  When can_make_request
\* refuses at time t and wait_until_available returns 0 at t, no waiting
\* helps: can_make_request refuses at every later time too, so a window that
\* empties by itself (a single sample with tokens >= max_tpm) gets a delay
\* above 0.
C31_ZeroMeansUnsatisfiable ==
    \A k \in 1..Len(eval) :
        (/\ eval[k].op = "wait_until_available"
         /\ eval[k].result = 0
         /\ ~CanMakeRequest(eval[k].before, eval[k].at,
                            eval[k].max_rpm, eval[k].max_tpm).ok)
            => \A d \in Turns(eval[k].before, eval[k].at) :
                   d >= 0 => ~CanMakeRequest(eval[k].before, eval[k].at + d,
                                            eval[k].max_rpm, eval[k].max_tpm).ok

\* the future holds the error of a rate-limit rejection
RateRejected(f) ==
    /\ f.st = "exception"
    /\ f.value \in {RateLimitError("Rate limit exceeded"),
                    RateLimitError("Token limit exceeded")}

\* the requests the worker w has in hand before its batch is executed: those
\* get_batch has collected and those in the queue of its model
InHand(ws, qs, w) ==
    {qs[ws[w].model][k] : k \in 1..Len(qs[ws[w].model])}
        \cup (IF ws[w].pc = "abatch" THEN {}
              ELSE {ws[w].requests[p] : p \in 1..Len(ws[w].requests)})

C33_RetryRateChecked ==
    [][\A w \in 1..Len(workers) :
          (workers[w].pc = "retry_sleep" /\ workers'[w].pc = "abatch"
               /\ workers'[w].attempt > workers[w].attempt)
              => CheckRequest(trackers[workers[w].model], now,
                              configs[workers[w].model]).can_proceed]_vars

\* what a resolve or resolve_error call for request_id with the outcome has
\* to do to the router and the futures
Routed(request_id, outcome) ==
    /\ request_id \in DOMAIN router.pending_futures
           => /\ ~Done(futs[router.pending_futures[request_id]])
                     => futs'[router.pending_futures[request_id]] = outcome
              /\ request_id \notin DOMAIN router'.pending_requests
              /\ request_id \notin DOMAIN router'.pending_futures
              /\ router'.warnings = router.warnings
              /\ \A j \in 1..Len(futs) :
                     j # router.pending_futures[request_id] => futs'[j] = futs[j]
    /\ request_id \notin DOMAIN router.pending_futures
           => /\ router'.warnings = router.warnings + 1
              /\ futs' = futs
              /\ router'.pending_requests = router.pending_requests
              /\ router'.pending_futures = router.pending_futures
    /\ \A other \in DOMAIN router.pending_futures \ {request_id} :
           /\ other \in DOMAIN router'.pending_futures
           /\ router'.pending_futures[other] = router.pending_futures[other]
           /\ router'.pending_requests[other] = router.pending_requests[other]
    /\ Len(futs') = Len(futs)

\* C34: what resolve and resolve_error change.  For a registered id with an
\* unresolved future the call completes that future with the response or the
\* error and removes the id from both pending maps; for an id that is not
\* registered it prints a warning and changes nothing; it touches no other
\* entry and no other future; and the two pending maps have the same keys
\* at all times.
C34_ResolveFrame ==
    /\ [](DOMAIN router.pending_requests = DOMAIN router.pending_futures)
    /\ [][\A id \in RouterIds :
             /\ \A c \in RouterContents :
                    RouterResolve([request_id |-> id, content |-> c])
                        => Routed(id, Result([request_id |-> id, content |-> c]))
             /\ RouterResolveError(id, HttpError(400))
                    => Routed(id, Exception(HttpError(400)))]_vars

\* One id was resolved with a response and left the maps, a call for an id
\* that was not registered printed its warning, and another id is still
\* registered with its future pending.
C34_Witness ==
    /\ router.warnings > 0
    /\ \E k, n \in 1..Len(reqs) :
           /\ futs[k].st = "result"
           /\ reqs[k].request_id \notin DOMAIN router.pending_futures
           /\ reqs[n].request_id \in DOMAIN router.pending_futures
           /\ futs[n].st = "pending"

\* C35: the worker outlives the errors of execute_batch.  When an error that
\* is not a cancellation leaves execute_batch, the worker task is alive after
\* it and is collecting or executing the next batch; a worker task ends only
\* when it was cancelled; when stop() returns every worker task has ended;
\* and a task that has ended does nothing more: the provider is invoked only
\* by a live task.
C35_WorkerSurvives ==
    [][/\ \A w \in 1..Len(workers), e \in {NoError, HttpError(400)}, le \in LogErrors :
              ErrorLogRaises(w, e, le, 0)
                  => workers'[w].pc \in {"get_first", "wait_for", "abatch"}
       /\ \A w \in 1..Len(workers) :
              /\ (Live(w) /\ workers'[w].pc = "done") => workers[w].cancel
              /\ ~Live(w) => workers'[w] = workers[w]
       /\ StopReturn => \A w \in 1..Len(workers) : workers'[w].pc = "done"
       /\ (\E i \in 1..Len(sent) : sent'[i] # sent[i])
              => \E w \in 1..Len(workers) : Live(w) /\ workers'[w].pc = "abatch"
      ]_vars

\* An error left execute_batch, the worker went on and executed a batch with
\* a request made after the error, and stop() has returned with the worker
\* ended.
C35_Witness ==
    /\ stops > 0 /\ stopping = 0
    /\ \A w \in 1..Len(workers) : workers[w].pc = "done"
    /\ \E k \in 1..Len(eval), i \in 1..Len(reqs) :
           /\ eval[k].op = "raised"
           /\ i > eval[k].requests
           /\ sent[i] = 1 /\ futs[i].st = "result"

\* the worker tasks of model m that are inside get_batch, and inside
\* execute_batch (the provider call, a rate-limit wait, a retry sleep)
InGetBatch(m) == {w \in 1..Len(workers) :
                     workers[w].model = m /\ workers[w].pc \in {"get_first", "wait_for"}}
InExecuteBatch(m) == {w \in 1..Len(workers) :
                         /\ workers[w].model = m
                         /\ workers[w].pc \in {"abatch", "rate_sleep", "retry_sleep"}}
\* the requests for model m that were taken from its queue and are not done
InFlight(m) == {i \in 1..Len(reqs) :
                   /\ reqs[i].model = m
                   /\ ~Done(futs[i])
                   /\ \A k \in 1..Len(queues[m]) : queues[m][k] # i}

\* C36: one batch at a time per model.  With start() called once, each model
\* has at most one get_batch call and at most one execute_batch call in
\* progress and never both; the requests taken from its queue and not done
\* all belong to the one batch its worker holds, through the retries and the
\* rate-limit waits of that batch; and a step of one model's worker changes
\* nothing of another model: its queue, its tracker, its worker and the
\* futures of its requests.
C36_OneBatchPerModel ==
    /\ [](\A m \in DOMAIN configs :
              /\ Cardinality(InGetBatch(m)) + Cardinality(InExecuteBatch(m)) <= 1
              /\ InFlight(m) # {}
                     => \E w \in InGetBatch(m) \cup InExecuteBatch(m) :
                            InFlight(m) \subseteq {workers[w].requests[p] :
                                                      p \in 1..Len(workers[w].requests)})
    /\ [][\A w \in 1..Len(workers) :
             workers'[w] # workers[w]
                 => \A m \in DOMAIN configs \ {workers[w].model} :
                        /\ queues'[m] = queues[m]
                        /\ trackers'[m] = trackers[m]
                        /\ \A v \in 1..Len(workers) :
                               workers[v].model = m => workers'[v] = workers[v]
                        /\ \A i \in 1..Len(reqs) :
                               reqs[i].model = m => futs'[i] = futs[i] /\ sent'[i] = sent[i]]_vars

\* The worker of one model sleeps between two attempts of its batch while
\* the worker of the other model has its batch at the provider.
C36_Witness ==
    \E v, w \in 1..Len(workers) :
        /\ workers[v].model # workers[w].model
        /\ workers[v].pc = "retry_sleep" /\ workers[v].requests # <<>>
        /\ workers[w].pc = "abatch"

\* C37: batch(requests) calls request() for all entries at once: when batch()
\* reaches its first await, every request of the input list, whatever its
\* model, has been submitted, so the requests of one model do not wait for
\* those of another model to complete.
C37_BatchSubmitsAll ==
    [][\A c \in 1..Len(calls') :
           c > Len(calls) /\ calls'[c].pc = "gather" =>
               /\ Len(reqs') = Len(reqs) + Len(calls'[c].input)
               /\ \A i \in 1..Len(calls'[c].input) :
                      \E k \in (Len(reqs) + 1)..Len(reqs') :
                          reqs'[k].request_id = calls'[c].input[i].request_id]_vars

\* C38: a run of _sgr_loop makes at most MAX_ITERATIONS gateway requests.  It
\* returns the content of the first response without tool calls, received in
\* answer to the last request it made; if every response carried tool calls
\* it returns "Error: Maximum iterations exceeded" after exactly
\* MAX_ITERATIONS requests, whether the tools succeeded, failed or were not
\* found.
Answers == {k \in 1..Len(eval) : eval[k].tool_calls = <<>>}

C38_SgrLoopTerminates ==
    /\ Len(reqs) <= MAX_ITERATIONS
    /\ Len(eval) <= Len(reqs)
    /\ \A c \in 1..Len(calls) :
           calls[c].pc = "returned" =>
               IF Answers # {}
               THEN /\ Answers = {Len(eval)}
                    /\ Len(reqs) = Len(eval)
                    /\ calls[c].result = eval[Len(eval)].content
               ELSE /\ calls[c].result = <<"Error: Maximum iterations exceeded">>
                    /\ Len(reqs) = MAX_ITERATIONS
                    /\ Len(eval) = MAX_ITERATIONS
    /\ \A c \in 1..Len(calls) :
           (Answers = {} /\ Len(eval) = MAX_ITERATIONS /\ calls[c].pc # "execute")
               => calls[c].pc = "returned"

C38_Witness ==
    /\ calls # <<>>
    /\ calls[1].pc = "returned"
    /\ calls[1].result = <<"Error: Maximum iterations exceeded">>
    /\ Len(reqs) = MAX_ITERATIONS
    /\ \E k \in 1..Len(calls[1].messages) :
           calls[1].messages[k].content = NotFound("unknown_tool")
    /\ \E k \in 1..Len(calls[1].messages) :
           calls[1].messages[k].content = ErrorExecuting("dummy_tool", "ValueError")
    /\ \E k \in 1..Len(calls[1].messages) :
           calls[1].messages[k].content = <<"result">>

\* C39: the translation of the messages of a request keeps the tool calls
\* linked: an assistant message that carries a tool call becomes a provider
\* assistant message with that tool call, and the tool message that follows
\* it with the same tool call becomes a provider tool message whose
\* tool_call_id is the id of the tool call.
Stitched(messages, result, k) ==
    /\ result[k] = AIMessage(messages[k].content, <<messages[k].tool_call>>)
    /\ (/\ k < Len(messages)
        /\ messages[k + 1].role = "tool"
        /\ "tool_call" \in DOMAIN messages[k + 1]
        /\ messages[k + 1].tool_call = messages[k].tool_call)
           => result[k + 1] = ToolMessage(messages[k + 1].content, messages[k].tool_call.id)

C39_ToolCallLinkage ==
    \A e \in 1..Len(eval) :
        \A k \in 1..Len(eval[e].request.messages) :
            (/\ eval[e].request.messages[k].role = "assistant"
             /\ "tool_call" \in DOMAIN eval[e].request.messages[k])
                => Stitched(eval[e].request.messages, eval[e].result, k)

\* C40: every entry of responses.jsonl that resolve writes carries the
\* agent_id of the request that was registered under its request_id: the
\* request is still in the registry when the entry is built.
C40_LogCarriesAgent ==
    \A e \in 1..Len(eval) :
        eval[e].op = "responses.jsonl" =>
            \E i \in 1..Len(reqs) : /\ reqs[i].request_id = eval[e].request_id
                                    /\ reqs[i].agent_id = eval[e].agent_id

====
